---------------------------- MODULE Spec2Model ----------------------------
(***************************************************************************)
(* A model of the resume-analysis repository: the markdown resume parser   *)
(* (lib/resume-parser), the PDF layout reconstructor of the extract-text   *)
(* route and the list editors of the resume page.                          *)
(*                                                                         *)
(* Text is modelled as TLA+ strings, read character by character with      *)
(* SubSeq.  The regular expressions of the source are transcribed as       *)
(* syntax trees and run by a backtracking matcher that follows the         *)
(* ECMAScript rules (leftmost start, alternatives in order, greedy         *)
(* quantifiers that give back), so captures are those the code sees.       *)
(* Inputs are ASCII: the CJK alternatives of the source's patterns cannot  *)
(* match them and are left out of the transcriptions; the en dash and the  *)
(* bullet glyphs are written with the stand-in characters named below.     *)
(***************************************************************************)
EXTENDS Integers, Sequences, FiniteSets, TLC

\* Bounds of the model
MaxEntries == 2      \* entries of one kind in a generated resume
MaxTotal == 3        \* entries of all kinds in a generated resume
MaxSkillLines == 2   \* lines of a generated skills section
MaxItems == 3        \* records in the list of a list editor
MaxCols == 9         \* columns of the grid the text fragments start on

VARIABLES
  pc,          \* position of the modelled call: "start" | "done"
  dateStr,     \* normalizeDate: argument
  dateOut,     \* normalizeDate: return value
  mdText,      \* buildParsedResume: the markdown argument
  resume,      \* buildParsedResume: the ParsedResume returned
  headerParts, \* parseExperienceHeader: the parts the header is written from
  headerRoles, \* what each of these parts is: "title" | "date" | "other"
  expOut,      \* parseExperienceHeader: the record returned
  skillLines,  \* parseSkills: the lines argument
  skillsOut,   \* parseSkills: the list returned
  editorKind,  \* list editor: "experience" | "education" | "project"
  data,        \* list editor: the data prop, as last passed to onChange
  items,       \* extractPdfText: textContent.items of the page
  itemIndex,   \* extractPdfText: the item the loop is at (from 1)
  pageText,    \* extractPdfText: the loop's pageText
  lastX,       \* extractPdfText: the loop's lastX
  lastY,       \* extractPdfText: the loop's lastY
  fullText,    \* extractPdfText: the text of the pages done
  generated,   \* generateMarkdown: the markdown written from resume
  reparsed,    \* buildParsedResume: the ParsedResume read back from generated
  rawText,     \* convertToMarkdown: the text argument
  segmented,   \* convertToMarkdown: the markdown returned
  s3Key,       \* extract-text POST: the s3Key of the request body
  fileText,    \* extract-text POST: the text of the stored file
  response,    \* extract-text POST: the JSON body of the response
  page,        \* resume page: the state of the component (its useState values)
  inFlight,    \* resume page: the handleSaveToS3 call that awaits its fetch
  requestBody, \* save-structured-resume POST: the request, as read
  stored,      \* save-structured-resume POST: the keys of the bucket's objects
  saveResponse, \* save-structured-resume POST: the JSON body of the response
  recommendedTracks, \* job-recommendations POST: careerAnalysis.recommendedTracks
  trackIndex,  \* job-recommendations POST: the track the loop is at (from 1)
  allJobs,     \* job-recommendations POST: the loop's allJobs
  tracksQueried, \* job-recommendations POST: the loop's tracksQueried
  fetchLog,    \* job-recommendations POST: what JSearch answered, in order
  jobsResponse \* job-recommendations POST: the JSON body and status returned

dateVars == <<dateStr, dateOut>>
parseVars == <<mdText, resume>>
headerVars == <<headerParts, headerRoles, expOut>>
skillVars == <<skillLines, skillsOut>>
editVars == <<editorKind, data>>
layoutVars == <<items, itemIndex, pageText, lastX, lastY, fullText>>
roundVars == <<generated, reparsed>>
segmentVars == <<rawText, segmented>>
postVars == <<s3Key, fileText, response>>
pageVars == <<page, inFlight>>
saveVars == <<requestBody, stored, saveResponse>>
jobVars ==
  <<recommendedTracks, trackIndex, allJobs, tracksQueried, fetchLog, jobsResponse>>
vars ==
  <<pc, dateVars, parseVars, headerVars, skillVars, editVars, layoutVars,
    roundVars, segmentVars, postVars, pageVars, saveVars, jobVars>>

\* Each specification below runs one part of the program; the variables of
\* the other parts keep their idle values.
DateIdle == dateStr = "" /\ dateOut = ""
ParseIdle == mdText = "" /\ resume = <<>>
HeaderIdle == headerParts = <<>> /\ headerRoles = <<>> /\ expOut = <<>>
SkillIdle == skillLines = <<>> /\ skillsOut = <<>>
EditIdle == editorKind = "" /\ data = <<>>
LayoutIdle ==
  /\ items = <<>> /\ itemIndex = 0 /\ pageText = ""
  /\ lastX = 0 /\ lastY = 0 /\ fullText = ""

RoundIdle == generated = "" /\ reparsed = <<>>
SegmentIdle == rawText = "" /\ segmented = ""
PostIdle == s3Key = "" /\ fileText = "" /\ response = <<>>
PageIdle == page = <<>> /\ inFlight = <<>>
SaveIdle == requestBody = <<>> /\ stored = {} /\ saveResponse = <<>>
JobIdle ==
  /\ recommendedTracks = <<>> /\ trackIndex = 0 /\ allJobs = <<>>
  /\ tracksQueried = <<>> /\ fetchLog = <<>> /\ jobsResponse = <<>>

\* the round trip (part "round") runs on the variables of "parse" as well
IdleExcept(part) ==
  /\ IF part = "date" THEN TRUE ELSE DateIdle
  /\ IF part = "parse" \/ part = "round" THEN TRUE ELSE ParseIdle
  /\ IF part = "round" THEN TRUE ELSE RoundIdle
  /\ IF part = "segment" THEN TRUE ELSE SegmentIdle
  /\ IF part = "post" THEN TRUE ELSE PostIdle
  /\ IF part = "header" THEN TRUE ELSE HeaderIdle
  /\ IF part = "skills" THEN TRUE ELSE SkillIdle
  /\ IF part = "edit" THEN TRUE ELSE EditIdle
  /\ IF part = "layout" THEN TRUE ELSE LayoutIdle
  /\ IF part = "page" THEN TRUE ELSE PageIdle
  /\ IF part = "save" THEN TRUE ELSE SaveIdle
  /\ IF part = "jobs" THEN TRUE ELSE JobIdle

UnchangedExcept(part) ==
  /\ IF part = "date" THEN TRUE ELSE UNCHANGED dateVars
  /\ IF part = "parse" \/ part = "round" THEN TRUE ELSE UNCHANGED parseVars
  /\ IF part = "round" THEN TRUE ELSE UNCHANGED roundVars
  /\ IF part = "segment" THEN TRUE ELSE UNCHANGED segmentVars
  /\ IF part = "post" THEN TRUE ELSE UNCHANGED postVars
  /\ IF part = "header" THEN TRUE ELSE UNCHANGED headerVars
  /\ IF part = "skills" THEN TRUE ELSE UNCHANGED skillVars
  /\ IF part = "edit" THEN TRUE ELSE UNCHANGED editVars
  /\ IF part = "layout" THEN TRUE ELSE UNCHANGED layoutVars
  /\ IF part = "page" THEN TRUE ELSE UNCHANGED pageVars
  /\ IF part = "save" THEN TRUE ELSE UNCHANGED saveVars
  /\ IF part = "jobs" THEN TRUE ELSE UNCHANGED jobVars

(***************************************************************************)
(* Characters and strings                                                  *)
(***************************************************************************)
EnDash == "~"        \* stands for U+2013 (the en dash of the date patterns)
BulletGlyph == "^"   \* stands for U+2022 (and the other non-ASCII bullets)

Char(s, i) == SubSeq(s, i, i)

UpperSeq == "ABCDEFGHIJKLMNOPQRSTUVWXYZ"
LowerSeq == "abcdefghijklmnopqrstuvwxyz"
DigitSeq == "0123456789"

Upper == {Char(UpperSeq, i) : i \in 1..26}
Lower == {Char(LowerSeq, i) : i \in 1..26}
Digit == {Char(DigitSeq, i) : i \in 1..10}
\* \w and \s of the regular expressions
WordCh == Upper \cup Lower \cup Digit \cup {"_"}
SpaceCh == {" ", "\t", "\n", "\r", "\f"}

LowerCh(c) ==
  IF c \in Upper THEN Char(LowerSeq, CHOOSE i \in 1..26 : Char(UpperSeq, i) = c)
  ELSE c

\* s.toLowerCase(), computed by halves
RECURSIVE ToLower(_)
ToLower(s) ==
  IF Len(s) = 0 THEN ""
  ELSE IF Len(s) = 1 THEN LowerCh(s)
  ELSE ToLower(SubSeq(s, 1, Len(s) \div 2))
         \o ToLower(SubSeq(s, (Len(s) \div 2) + 1, Len(s)))

MinOf(S) == CHOOSE x \in S : \A y \in S : x <= y
MaxOf(S) == CHOOSE x \in S : \A y \in S : x >= y

\* s.substring(i-1, j-1) with 1-based i and exclusive 1-based j
Sub(s, i, j) == IF j <= i THEN "" ELSE SubSeq(s, i, j - 1)

\* s.trim(): from the first to the last character that is not white space
Trim(s) ==
  LET Span(keep) == IF keep = {} THEN "" ELSE SubSeq(s, MinOf(keep), MaxOf(keep))
  IN Span({i \in 1..Len(s) : Char(s, i) \notin SpaceCh})

StartsWith(s, p) == Len(p) <= Len(s) /\ SubSeq(s, 1, Len(p)) = p
EndsWith(s, p) ==
  Len(p) <= Len(s) /\ SubSeq(s, Len(s) - Len(p) + 1, Len(s)) = p
Includes(s, p) ==
  \E i \in 1..(Len(s) - Len(p) + 1) : SubSeq(s, i, i + Len(p) - 1) = p

\* s.split(sep) for a separator that is any one character of seps: the
\* pieces between consecutive separator positions
Split(s, seps) ==
  LET Kth(at, n, k) ==
        IF k = 0 THEN 0
        ELSE IF k = n + 1 THEN Len(s) + 1
        ELSE CHOOSE p \in at : Cardinality({q \in at : q < p}) = k - 1
      Pieces(at, n) ==
        [k \in 1..(n + 1) |-> Sub(s, Kth(at, n, k - 1) + 1, Kth(at, n, k))]
      PiecesAt(at) == Pieces(at, Cardinality(at))
  IN PiecesAt({i \in 1..Len(s) : Char(s, i) \in seps})

RECURSIVE Join(_, _)
Join(parts, sep) ==
  IF Len(parts) = 0 THEN ""
  ELSE IF Len(parts) = 1 THEN parts[1]
  ELSE parts[1] \o sep \o Join(Tail(parts), sep)

PadStart2_NoPad(s) == s

\* s.padStart(2, '0')
PadStart2(s) == IF Len(s) < 2 THEN "0" \o s ELSE s

(***************************************************************************)
(* Regular expressions: syntax trees and the backtracking matcher          *)
(***************************************************************************)
RxCls(S) == [t |-> "cls", set |-> S]            \* [...]
RxNot(S) == [t |-> "ncls", set |-> S]           \* [^...]
RxAny == RxNot({"\n", "\r"})                    \* .
RxLit(str) == [t |-> "lit", str |-> str]        \* literal text
RxLitI(str) == [t |-> "liti", str |-> str]      \* literal text under /i
RxCat(rs) == [t |-> "cat", items |-> rs]  \* r1 r2 ...
RxAlt(rs) == [t |-> "alt", items |-> rs]  \* r1 | r2 | ...
\* greedy r{min,max}; max = -1 is unbounded.  r never matches the empty string
RxRep(r, min, max) == [t |-> "rep", r |-> r, min |-> min, max |-> max]
\* lazy r{min,max}?
RxLazy(r, min, max) == [t |-> "lazy", r |-> r, min |-> min, max |-> max]
RxGrp(k, r) == [t |-> "grp", k |-> k, r |-> r]  \* capture group number k
RxBol == [t |-> "bol"]                          \* ^
RxEol == [t |-> "eol"]                          \* $
RxPlus(r) == RxRep(r, 1, -1)
RxStar(r) == RxRep(r, 0, -1)
RxOpt(r) == RxRep(r, 0, 1)

NoCaps == [g \in 1..4 |-> <<0, 0>>]
NoMatch == [ok |-> FALSE]

RxDec(n) == IF n > 0 THEN n - 1 ELSE n

\* whether character c is in the class cls (a "cls" or "ncls" node)
InClass(cls, c) == IF cls.t = "cls" THEN c \in cls.set ELSE c \notin cls.set
IsClass(r) == r.t = "cls" \/ r.t = "ncls"
\* the longest run of at most max characters of class cls from position i
RunLength(cls, s, i, max) ==
  MaxOf({n \in 0..(IF max = -1 \/ max > Len(s) - i + 1 THEN Len(s) - i + 1 ELSE max) :
           \A j \in i..(i + n - 1) : InClass(cls, Char(s, j))})

\* the first of two attempts that matches
OrElse(m, other) == IF m.ok THEN m ELSE other

RECURSIVE Match(_, _, _, _)
RECURSIVE MatchHead(_, _, _, _, _)
RECURSIVE TryAlts(_, _, _, _, _)
RECURSIVE TryRun(_, _, _, _, _, _, _)
\* k: the regular expressions still to match, in order (the continuation);
\* the first way to match all of them from position i, in backtracking order
Match(k, s, i, caps) ==
  IF Len(k) = 0 THEN [ok |-> TRUE, end |-> i, caps |-> caps]
  ELSE MatchHead(Head(k), Tail(k), s, i, caps)

MatchHead(r, rest, s, i, caps) ==
       CASE r.t = "cls" ->
              IF i <= Len(s) /\ Char(s, i) \in r.set
              THEN Match(rest, s, i + 1, caps) ELSE NoMatch
         [] r.t = "ncls" ->
              IF i <= Len(s) /\ Char(s, i) \notin r.set
              THEN Match(rest, s, i + 1, caps) ELSE NoMatch
         [] r.t = "lit" ->
              IF i + Len(r.str) - 1 <= Len(s)
                 /\ Sub(s, i, i + Len(r.str)) = r.str
              THEN Match(rest, s, i + Len(r.str), caps) ELSE NoMatch
         [] r.t = "liti" ->
              IF i + Len(r.str) - 1 <= Len(s)
                 /\ ToLower(Sub(s, i, i + Len(r.str))) = ToLower(r.str)
              THEN Match(rest, s, i + Len(r.str), caps) ELSE NoMatch
         [] r.t = "cat" -> Match(r.items \o rest, s, i, caps)
         [] r.t = "alt" -> TryAlts(r.items, rest, s, i, caps)
         [] r.t = "rep" /\ IsClass(r.r) ->
              TryRun(rest, s, i, RunLength(r.r, s, i, r.max), r.min, -1, caps)
         [] r.t = "lazy" /\ IsClass(r.r) ->
              TryRun(rest, s, i, r.min, RunLength(r.r, s, i, r.max), 1, caps)
         [] r.t = "rep" /\ ~IsClass(r.r) ->
              OrElse(IF r.max = 0 THEN NoMatch
                     ELSE Match(<<r.r, RxRep(r.r, RxDec(r.min), RxDec(r.max))>>
                                  \o rest, s, i, caps),
                     IF r.min <= 0 THEN Match(rest, s, i, caps) ELSE NoMatch)
         [] r.t = "lazy" /\ ~IsClass(r.r) ->
              OrElse(IF r.min <= 0 THEN Match(rest, s, i, caps) ELSE NoMatch,
                     IF r.max = 0 THEN NoMatch
                     ELSE Match(<<r.r, RxLazy(r.r, RxDec(r.min), RxDec(r.max))>>
                                  \o rest, s, i, caps))
         [] r.t = "grp" ->
              Match(<<[t |-> "open", k |-> r.k], r.r, [t |-> "close", k |-> r.k]>>
                      \o rest, s, i, caps)
         [] r.t = "open" ->
              Match(rest, s, i, [caps EXCEPT ![r.k] = <<i, i>>])
         [] r.t = "close" ->
              Match(rest, s, i, [caps EXCEPT ![r.k] = <<caps[r.k][1], i>>])
         [] r.t = "bol" -> IF i = 1 THEN Match(rest, s, i, caps) ELSE NoMatch
         [] r.t = "eol" ->
              IF i = Len(s) + 1 THEN Match(rest, s, i, caps) ELSE NoMatch

TryAlts(alts, rest, s, i, caps) ==
  IF Len(alts) = 0 THEN NoMatch
  ELSE OrElse(Match(<<Head(alts)>> \o rest, s, i, caps),
              TryAlts(Tail(alts), rest, s, i, caps))

\* a quantified character class: the run lengths from n towards last, in
\* steps of step (-1: greedy, giving back; 1: lazy, taking more), each
\* followed by the rest
TryRun(rest, s, i, n, last, step, caps) ==
  IF (step = -1 /\ n < last) \/ (step = 1 /\ n > last) THEN NoMatch
  ELSE OrElse(Match(rest, s, i + n, caps),
              TryRun(rest, s, i, n + step, last, step, caps))

\* s.match(re) without the g flag: the leftmost match at or after position i
SearchFrom(re, s, i) ==
  LET Hit(j, m) ==
        IF m.ok THEN [ok |-> TRUE, start |-> j, end |-> m.end, caps |-> m.caps]
        ELSE NoMatch
      Leftmost(hits) ==
        IF hits = {} THEN NoMatch
        ELSE CHOOSE m \in hits : \A o \in hits : m.start <= o.start
  IN Leftmost({Hit(j, Match(<<re>>, s, j, NoCaps)) : j \in i..(Len(s) + 1)}
                \ {NoMatch})

Search(re, s) == SearchFrom(re, s, 1)
Test(re, s) == Search(re, s).ok
\* m[0] and m[k] of a match m of s
Whole(m, s) == Sub(s, m.start, m.end)
Cap(m, s, k) == Sub(s, m.caps[k][1], m.caps[k][2])

\* s.replace(re, '') with the g flag
RECURSIVE RemoveAllFrom(_, _, _)
RemoveAllFrom(re, s, i) ==
  LET Without(m) ==
        IF ~m.ok THEN Sub(s, i, Len(s) + 1)
        ELSE IF m.end = m.start
             THEN Sub(s, i, Len(s) + 1)
             ELSE Sub(s, i, m.start) \o RemoveAllFrom(re, s, m.end)
  IN Without(SearchFrom(re, s, i))

RemoveAll(re, s) == RemoveAllFrom(re, s, 1)

(***************************************************************************)
(* normalizeDate                                                           *)
(***************************************************************************)
MonthNames ==
  <<"january", "february", "march", "april", "may", "june", "july", "august",
    "september", "october", "november", "december", "jan", "feb", "mar", "apr",
    "jun", "jul", "aug", "sep", "oct", "nov", "dec">>
MonthNumbers ==
  <<"01", "02", "03", "04", "05", "06", "07", "08",
    "09", "10", "11", "12", "01", "02", "03", "04",
    "06", "07", "08", "09", "10", "11", "12">>

InMonthMap(w) == \E i \in 1..Len(MonthNames) : MonthNames[i] = w
monthMap(w) == MonthNumbers[CHOOSE i \in 1..Len(MonthNames) : MonthNames[i] = w]

RxD4 == RxRep(RxCls(Digit), 4, 4)
RxYearOnly == RxCat(<<RxBol, RxD4, RxEol>>)
RxMmYyyy ==
  RxCat(<<RxBol, RxGrp(1, RxRep(RxCls(Digit), 1, 2)), RxLit("/"),
          RxGrp(2, RxD4), RxEol>>)
RxMonthYear ==
  RxCat(<<RxBol, RxGrp(1, RxPlus(RxCls(WordCh))), RxPlus(RxCls(SpaceCh)),
          RxGrp(2, RxD4), RxEol>>)

\* the month the code writes for a word that is not in monthMap
MissingMonth == "01"

\* monthMap[w] || '01'
MonthOf(w) == IF InMonthMap(w) THEN monthMap(w) ELSE MissingMonth

normalizeDate(str) ==
  LET Normalized(mm, my) ==
        IF mm.ok THEN Cap(mm, str, 2) \o "-" \o PadStart2(Cap(mm, str, 1)) \o "-01"
        ELSE IF my.ok
             THEN Cap(my, str, 2) \o "-" \o MonthOf(ToLower(Cap(my, str, 1))) \o "-01"
             ELSE str
  IN IF Test(RxYearOnly, str) THEN str \o "-01-01"
     ELSE Normalized(Search(RxMmYyyy, str), Search(RxMonthYear, str))

(***************************************************************************)
(* parseExperienceHeader                                                   *)
(***************************************************************************)
\* absent (undefined) and null field values; no input text contains "<"
Undefined == "<undefined>"
Null == "<null>"
Falsy(v) == v = "" \/ v = Undefined \/ v = Null

\* x || 50 on a number
OrFifty(n) == IF n = 0 THEN 50 ELSE n
\* Math.min(100, Math.max(0, n))
Clamp_Unbounded(n) == n
Clamp(n) == IF n > 100 THEN 100 ELSE IF n < 0 THEN 0 ELSE n

RxWordYear == RxCat(<<RxPlus(RxCls(WordCh)), RxPlus(RxCls(SpaceCh)), RxD4>>)
RxSlashYear == RxCat(<<RxRep(RxCls(Digit), 1, 2), RxLit("/"), RxD4>>)
RxDash ==
  RxCat(<<RxStar(RxCls(SpaceCh)), RxCls({"-", EnDash}), RxStar(RxCls(SpaceCh))>>)

RxExpDatePattern ==
  RxCat(<<RxGrp(1, RxAlt(<<RxD4, RxWordYear, RxSlashYear>>)),
          RxDash,
          RxGrp(2, RxAlt(<<RxD4, RxWordYear, RxSlashYear, RxLitI("Present"),
                           RxLitI("Current"), RxLitI("Now")>>))>>)

\* /k1|k2|.../i.test(s) for literal keywords: some keyword occurs in s,
\* letter case aside
TestAnyI(keywords, s) == \E k \in keywords : Includes(ToLower(s), k)

titleKeywords_EngineerOnly == {"engineer"}
titleKeywords ==
  {"engineer", "developer", "manager", "analyst", "consultant", "designer",
   "architect", "lead", "senior", "junior", "intern", "director", "specialist",
   "coordinator", "associate", "scientist", "researcher", "programmer",
   "administrator"}
ExpPresentWords == {"present", "current", "now"}

\* parts.map((p) => p.trim())
TrimAll(parts) == [k \in 1..Len(parts) |-> Trim(parts[k])]

NewExperience ==
  [company |-> "", title |-> "", location |-> Undefined,
   startDate |-> Undefined, endDate |-> Undefined, description |-> <<>>,
   isCurrent |-> FALSE, confidence |-> 50, order |-> 0]

\* one pass of the loop over the '|'-separated parts
ExperienceHeaderPart(exp, part) ==
  LET WithDates(startDate, endDate, isPresent) ==
        [exp EXCEPT
           !.startDate = startDate,
           !.endDate = IF isPresent THEN Null ELSE endDate,
           !.isCurrent = IF isPresent THEN TRUE ELSE @,
           !.confidence = OrFifty(@) + 15]
      Dated(startDateStr, endDateStr) ==
        WithDates(normalizeDate(startDateStr), normalizeDate(endDateStr),
                  TestAnyI(ExpPresentWords, endDateStr))
      Classified(dateMatch) ==
        IF dateMatch.ok
        THEN Dated(Cap(dateMatch, part, 1), Cap(dateMatch, part, 2))
        ELSE IF TestAnyI(titleKeywords, part) /\ exp.title = ""
        THEN [exp EXCEPT !.title = part, !.confidence = OrFifty(@) + 15]
        ELSE IF exp.company = ""
        THEN [exp EXCEPT !.company = part, !.confidence = OrFifty(@) + 10]
        ELSE IF Falsy(exp.location)
        THEN [exp EXCEPT !.location = part]
        ELSE exp
  IN Classified(Search(RxExpDatePattern, part))

RECURSIVE ExperienceHeaderParts(_, _)
ExperienceHeaderParts(exp, parts) ==
  IF Len(parts) = 0 THEN exp
  ELSE ExperienceHeaderParts(ExperienceHeaderPart(exp, Head(parts)), Tail(parts))

\* the comma fallback for a header of one part that set no company or title
ExperienceHeaderFallback(exp, header, parts) ==
  IF Len(parts) = 1 /\ exp.company = "" /\ exp.title = ""
  THEN LET Filled(commaParts) ==
             IF Len(commaParts) >= 2
             THEN [exp EXCEPT !.company = commaParts[1], !.title = commaParts[2]]
             ELSE [exp EXCEPT !.company = header]
       IN Filled(TrimAll(Split(header, {","})))
  ELSE exp

parseExperienceHeader(header) ==
  LET Clamped(exp) == [exp EXCEPT !.confidence = Clamp(OrFifty(@))]
      Parsed(parts) ==
        Clamped(ExperienceHeaderFallback(
                  ExperienceHeaderParts(NewExperience, parts), header, parts))
  IN Parsed(TrimAll(Split(header, {"|"})))

(***************************************************************************)
(* extractSections                                                         *)
(***************************************************************************)
SectionKeywordNames ==
  <<"personal information", "contact information", "contact details", "contact",
    "summary", "objective", "about", "self description", "profile",
    "education", "academic", "degree",
    "experience", "work experience", "employment", "professional",
    "professional experience",
    "skills", "technical skills", "competencies",
    "projects", "portfolio",
    "certifications", "certificates", "licenses">>
SectionKeywordTargets ==
  <<"PersonalInfo", "PersonalInfo", "PersonalInfo", "PersonalInfo",
    "Summary", "Summary", "Summary", "Summary", "Summary",
    "Education", "Education", "Education",
    "Experience", "Experience", "Experience", "Experience",
    "Experience",
    "Skills", "Skills", "Skills",
    "Projects", "Projects",
    "Certifications", "Certifications", "Certifications">>

\* the properties a plain object ({}) inherits from Object.prototype
ObjectPrototypeNames ==
  {"constructor", "toString", "toLocaleString", "valueOf", "hasOwnProperty",
   "isPrototypeOf", "propertyIsEnumerable", "__proto__", "__defineGetter__",
   "__defineSetter__", "__lookupGetter__", "__lookupSetter__"}
\* the property key an inherited value turns into when it is used as one
InheritedKey(name) ==
  IF name = "constructor" THEN "function Object() { [native code] }"
  ELSE IF name = "__proto__" THEN "[object Object]"
  ELSE "function " \o name \o "() { [native code] }"
\* the exception of calling push on an inherited value that is not an array
TypeError == "<TypeError>"
\* what a call yields when it ends by throwing e instead of returning
Throw(e) == [thrown |-> e]

\* SECTION_KEYWORDS[title] || fallback; SECTION_KEYWORDS is a plain object,
\* so an inherited property is found (and is truthy) as well
SECTION_KEYWORDS(title, fallback) ==
  IF \E i \in 1..Len(SectionKeywordNames) : SectionKeywordNames[i] = title
  THEN SectionKeywordTargets[
         CHOOSE i \in 1..Len(SectionKeywordNames) : SectionKeywordNames[i] = title]
  ELSE IF title \in ObjectPrototypeNames THEN InheritedKey(title)
  ELSE fallback

RxH2 ==
  RxCat(<<RxBol, RxLit("##"), RxPlus(RxCls(SpaceCh)), RxGrp(1, RxPlus(RxAny)),
          RxEol>>)
RxH3 ==
  RxCat(<<RxBol, RxLit("###"), RxPlus(RxCls(SpaceCh)), RxGrp(1, RxPlus(RxAny)),
          RxEol>>)
RxBullet ==
  RxCat(<<RxBol, RxCls({"-", "*"}), RxPlus(RxCls(SpaceCh)), RxGrp(1, RxPlus(RxAny)),
          RxEol>>)

\* sections[name].push(...content), creating the list when it is missing.
\* sections is a plain object: for an inherited name sections[name] is truthy
\* and has no push, and the call throws (recorded under the key TypeError)
PushSection(sections, name, content) ==
  IF Len(content) = 0 THEN sections
  ELSE IF name \in ObjectPrototypeNames THEN sections @@ (TypeError :> <<>>)
  ELSE IF name \in DOMAIN sections
       THEN [sections EXCEPT ![name] = @ \o content]
       ELSE sections @@ (name :> content)

\* one pass of the loop over the lines
ExtractSectionsLine(st, line) ==
  LET Named(sectionTitle) == SECTION_KEYWORDS(ToLower(sectionTitle), sectionTitle)
      Line(h2Match) ==
        IF h2Match.ok
        THEN [sections |->
                PushSection(st.sections, st.currentSection, st.currentContent),
              currentSection |-> Named(Trim(Cap(h2Match, line, 1))),
              currentContent |-> <<>>]
        ELSE [st EXCEPT !.currentContent = Append(@, line)]
  IN Line(Search(RxH2, line))

RECURSIVE ExtractSectionsLoop(_, _, _)
ExtractSectionsLoop(st, lines, i) ==
  IF i > Len(lines) THEN st
  ELSE ExtractSectionsLoop(ExtractSectionsLine(st, lines[i]), lines, i + 1)

extractSections(markdown) ==
  LET Last(st) == PushSection(st.sections, st.currentSection, st.currentContent)
  IN Last(ExtractSectionsLoop(
            [sections |-> <<>>, currentSection |-> "Unknown",
             currentContent |-> <<>>],
            Split(markdown, {"\n"}), 1))

\* sections[name] || []
SectionLines(sections, name) ==
  IF name \in DOMAIN sections THEN sections[name] ELSE <<>>

\* lines.filter(keep), for a set of indices to keep
KeepLines(lines, keep) ==
  LET Kth(k) == CHOOSE p \in keep : Cardinality({q \in keep : q < p}) = k - 1
  IN [k \in 1..Cardinality(keep) |-> lines[Kth(k)]]

(***************************************************************************)
(* parseSummary                                                            *)
(***************************************************************************)
parseSummary(lines) ==
  LET Joined(keep) ==
        IF keep = {} THEN Undefined
        ELSE Trim(Join(KeepLines(lines, keep), " "))
  IN Joined({i \in 1..Len(lines) :
               Trim(lines[i]) # "" /\ ~StartsWith(lines[i], "#")})

(***************************************************************************)
(* parseExperiences                                                        *)
(***************************************************************************)
\* if (currentExp && currentExp.company) experiences.push(currentExp)
PushExperience(st) ==
  IF st.open /\ st.cur.company # ""
  THEN Append(st.list, [st.cur EXCEPT !.description = st.bullets])
  ELSE st.list

\* one pass of the loop over the lines; st.open says currentExp is not null
ParseExperiencesLine(st, line) ==
  LET Line(trimmed, h3Match, bulletMatch, parsed) ==
        IF trimmed = "" THEN st
        ELSE IF h3Match.ok
        THEN [list |-> PushExperience(st), open |-> TRUE,
              cur |-> parseExperienceHeader(Cap(h3Match, trimmed, 1)),
              bullets |-> <<>>]
        ELSE IF bulletMatch.ok /\ st.open
        THEN [st EXCEPT !.bullets = Append(@, Cap(bulletMatch, trimmed, 1))]
        ELSE IF ~st.open /\ (parsed.company # "" \/ parsed.title # "")
        THEN [st EXCEPT !.open = TRUE, !.cur = parsed, !.bullets = <<>>]
        ELSE st
      Trimmed(trimmed) ==
        Line(trimmed, Search(RxH3, trimmed), Search(RxBullet, trimmed),
             parseExperienceHeader(trimmed))
  IN Trimmed(Trim(line))

RECURSIVE ParseExperiencesLoop(_, _, _)
ParseExperiencesLoop(st, lines, i) ==
  IF i > Len(lines) THEN st
  ELSE ParseExperiencesLoop(ParseExperiencesLine(st, lines[i]), lines, i + 1)

parseExperiences(lines) ==
  PushExperience(
    ParseExperiencesLoop(
      [list |-> <<>>, open |-> FALSE, cur |-> NewExperience, bullets |-> <<>>],
      lines, 1))

(***************************************************************************)
(* parseEducation and parseEducationHeader                                 *)
(***************************************************************************)
RxDot == RxOpt(RxLit("."))
degreeKeywords ==
  RxAlt(<<RxLitI("bachelor"), RxLitI("master"),
          RxCat(<<RxLitI("ph"), RxDot, RxLitI("d")>>),
          RxLitI("doctor"), RxLitI("associate"),
          RxCat(<<RxLitI("b"), RxDot, RxLitI("s"), RxDot>>),
          RxCat(<<RxLitI("m"), RxDot, RxLitI("s"), RxDot>>),
          RxCat(<<RxLitI("b"), RxDot, RxLitI("a"), RxDot>>),
          RxCat(<<RxLitI("m"), RxDot, RxLitI("a"), RxDot>>),
          RxLitI("mba")>>)
RxEduDatePattern ==
  RxCat(<<RxGrp(1, RxAlt(<<RxD4, RxWordYear>>)),
          RxDash,
          RxGrp(2, RxAlt(<<RxD4, RxWordYear, RxLitI("Present"), RxLitI("Current"),
                           RxLitI("Expected")>>))>>)
EduPresentWords == {"present", "current", "expected"}
RxDegreeIn ==
  RxCat(<<RxGrp(1, RxLazy(RxAny, 1, -1)), RxPlus(RxCls(SpaceCh)), RxLitI("in"),
          RxPlus(RxCls(SpaceCh)), RxGrp(2, RxPlus(RxAny))>>)
RxGpa ==
  RxCat(<<RxLitI("gpa"), RxStar(RxCls(SpaceCh \cup {":"})),
          RxGrp(1, RxCat(<<RxPlus(RxCls(Digit)), RxDot, RxStar(RxCls(Digit))>>))>>)
institutionKeywords == {"university", "college", "institute", "school"}

NewEducation ==
  [institution |-> "", degree |-> "", field |-> "", startDate |-> "",
   endDate |-> Null, gpa |-> Undefined, description |-> <<>>,
   confidence |-> 50, order |-> 0]

\* one pass of the loop over the '|'-separated parts
EducationHeaderPart(edu, part) ==
  LET Dated(startDateStr, endDateStr) ==
        [edu EXCEPT
           !.startDate = normalizeDate(startDateStr),
           !.endDate = IF TestAnyI(EduPresentWords, endDateStr) THEN Null
                       ELSE normalizeDate(endDateStr),
           !.confidence = OrFifty(@) + 15]
      Degree(inMatch) ==
        IF inMatch.ok
        THEN [edu EXCEPT !.degree = Trim(Cap(inMatch, part, 1)),
                         !.field = Trim(Cap(inMatch, part, 2)),
                         !.confidence = OrFifty(@) + 15]
        ELSE [edu EXCEPT !.degree = part, !.confidence = OrFifty(@) + 15]
      Classified(dateMatch, isDegree, gpaMatch) ==
        IF dateMatch.ok
        THEN Dated(Cap(dateMatch, part, 1), Cap(dateMatch, part, 2))
        ELSE IF isDegree /\ edu.degree = ""
        THEN Degree(Search(RxDegreeIn, part))
        ELSE IF gpaMatch.ok
        THEN [edu EXCEPT !.gpa = Cap(gpaMatch, part, 1)]
        ELSE IF TestAnyI(institutionKeywords, part) /\ edu.institution = ""
        THEN [edu EXCEPT !.institution = part, !.confidence = OrFifty(@) + 10]
        ELSE IF edu.institution = ""
        THEN [edu EXCEPT !.institution = part]
        ELSE IF edu.field = "" /\ ~isDegree
        THEN [edu EXCEPT !.field = part]
        ELSE edu
  IN Classified(Search(RxEduDatePattern, part), Test(degreeKeywords, part),
                Search(RxGpa, part))

RECURSIVE EducationHeaderParts(_, _)
EducationHeaderParts(edu, parts) ==
  IF Len(parts) = 0 THEN edu
  ELSE EducationHeaderParts(EducationHeaderPart(edu, Head(parts)), Tail(parts))

parseEducationHeader(header) ==
  LET Clamped(edu) == [edu EXCEPT !.confidence = Clamp(OrFifty(@))]
  IN Clamped(EducationHeaderParts(NewEducation, TrimAll(Split(header, {"|"}))))

\* if (currentEdu && currentEdu.institution) educationList.push(currentEdu)
PushEducation(st) ==
  IF st.open /\ st.cur.institution # ""
  THEN Append(st.list, [st.cur EXCEPT !.description = st.bullets])
  ELSE st.list

ParseEducationLine(st, line) ==
  LET Line(trimmed, h3Match, bulletMatch, parsed) ==
        IF trimmed = "" THEN st
        ELSE IF h3Match.ok
        THEN [list |-> PushEducation(st), open |-> TRUE,
              cur |-> parseEducationHeader(Cap(h3Match, trimmed, 1)),
              bullets |-> <<>>]
        ELSE IF bulletMatch.ok /\ st.open
        THEN [st EXCEPT !.bullets = Append(@, Cap(bulletMatch, trimmed, 1))]
        ELSE IF ~st.open /\ (parsed.institution # "" \/ parsed.degree # "")
        THEN [st EXCEPT !.open = TRUE, !.cur = parsed, !.bullets = <<>>]
        ELSE st
      Trimmed(trimmed) ==
        Line(trimmed, Search(RxH3, trimmed), Search(RxBullet, trimmed),
             parseEducationHeader(trimmed))
  IN Trimmed(Trim(line))

RECURSIVE ParseEducationLoop(_, _, _)
ParseEducationLoop(st, lines, i) ==
  IF i > Len(lines) THEN st
  ELSE ParseEducationLoop(ParseEducationLine(st, lines[i]), lines, i + 1)

parseEducation(lines) ==
  PushEducation(
    ParseEducationLoop(
      [list |-> <<>>, open |-> FALSE, cur |-> NewEducation, bullets |-> <<>>],
      lines, 1))

(***************************************************************************)
(* parseSkills                                                             *)
(***************************************************************************)
softSkillsKeywords ==
  {"leadership", "communication", "teamwork", "collaboration", "problem solving",
   "critical thinking", "time management", "project management", "adaptability",
   "creativity", "analytical", "attention to detail", "negotiation",
   "public speaking", "conflict resolution", "emotional intelligence", "mentoring"}
techKeywords ==
  {"python", "javascript", "typescript", "java", "c++", "c#", "go", "rust", "php",
   "ruby", "swift", "kotlin", "react", "vue", "angular", "nextjs", "node",
   "django", "fastapi", "spring", "express", "sql", "mysql", "mongodb", "redis",
   "aws", "gcp", "azure", "docker", "kubernetes", "git"}

\* the category a '###' sub-heading opens
SkillHeadingCategory(heading) ==
  LET Category(categoryName) ==
        IF Includes(categoryName, "technical") \/ Includes(categoryName, "tech")
        THEN "programming"
        ELSE IF Includes(categoryName, "soft") THEN "soft-skills"
        ELSE IF Includes(categoryName, "tool") THEN "tools"
        ELSE IF Includes(categoryName, "language") THEN "language"
        ELSE "other"
  IN Category(ToLower(heading))

\* the shortest name the loop keeps: if (!name || name.length < 2) continue
MinSkillNameLength == 2

\* the category of one skill name under the open category
SkillCategory(name, currentCategory) ==
  LET Category(lowerName) ==
        IF \E k \in softSkillsKeywords : Includes(lowerName, k) THEN "soft-skills"
        ELSE IF \E k \in techKeywords : Includes(lowerName, k) THEN "programming"
        ELSE IF (\E i \in 1..Len(name) : Char(name, i) \in {"+", "#", ".", "-", "/"})
                \/ (Len(name) >= 2 /\ \A i \in 1..Len(name) : Char(name, i) \in Upper)
        THEN "programming"
        ELSE currentCategory
  IN Category(ToLower(name))

RECURSIVE SkillsOfNames(_, _, _)
\* the inner loop over the names of one line
SkillsOfNames(names, i, currentCategory) ==
  IF i > Len(names) THEN <<>>
  ELSE (IF names[i] = "" \/ Len(names[i]) < MinSkillNameLength THEN <<>>
        ELSE <<[name |-> names[i],
                category |-> SkillCategory(names[i], currentCategory),
                confidence |-> 70]>>)
         \o SkillsOfNames(names, i + 1, currentCategory)

ParseSkillsLine(st, line) ==
  LET Line(trimmed, h3Match, skillText) ==
        IF trimmed = "" THEN st
        ELSE IF h3Match.ok
        THEN [st EXCEPT !.currentCategory =
                           SkillHeadingCategory(Cap(h3Match, trimmed, 1))]
        ELSE IF StartsWith(skillText, "#") THEN st
        ELSE [st EXCEPT !.skills =
                           @ \o SkillsOfNames(TrimAll(Split(skillText, {",", ";"})), 1,
                                              st.currentCategory)]
      SkillText(trimmed, bulletMatch) ==
        IF bulletMatch.ok THEN Cap(bulletMatch, trimmed, 1) ELSE trimmed
      Trimmed(trimmed) ==
        Line(trimmed, Search(RxH3, trimmed),
             SkillText(trimmed, Search(RxBullet, trimmed)))
  IN Trimmed(Trim(line))

RECURSIVE ParseSkillsLoop(_, _, _)
ParseSkillsLoop(st, lines, i) ==
  IF i > Len(lines) THEN st
  ELSE ParseSkillsLoop(ParseSkillsLine(st, lines[i]), lines, i + 1)

parseSkills(lines) ==
  ParseSkillsLoop([skills |-> <<>>, currentCategory |-> "other"], lines, 1).skills

(***************************************************************************)
(* parseProjects and parseProjectHeader                                    *)
(***************************************************************************)
RxProjDatePattern ==
  RxCat(<<RxGrp(1, RxAlt(<<RxD4, RxWordYear>>)),
          RxDash,
          RxGrp(2, RxAlt(<<RxD4, RxWordYear, RxLitI("Present"), RxLitI("Current"),
                           RxLitI("Ongoing")>>))>>)
ProjPresentWords == {"present", "current", "ongoing"}
RxUrl ==
  RxCat(<<RxLitI("http"), RxOpt(RxLitI("s")), RxLit("://"),
          RxPlus(RxNot(SpaceCh))>>)
RxTechLead ==
  RxAlt(<<RxCat(<<RxBol, RxLitI("tech")>>), RxCat(<<RxBol, RxLitI("stack")>>),
          RxCat(<<RxBol, RxLitI("built with")>>),
          RxCat(<<RxBol, RxLitI("technologies")>>)>>)
RxTechList ==
  RxCat(<<RxLit(":"), RxStar(RxCls(SpaceCh)), RxGrp(1, RxPlus(RxAny))>>)

\* technologies is <<the list>>, or <<>> while the field is absent
NewProject ==
  [name |-> "", description |-> <<>>, technologies |-> <<>>, url |-> Undefined,
   startDate |-> Undefined, endDate |-> Undefined, confidence |-> 50, order |-> 0]

ProjectHeaderPart(project, part) ==
  LET Dated(startDateStr, endDateStr) ==
        [project EXCEPT
           !.startDate = normalizeDate(startDateStr),
           !.endDate = IF TestAnyI(ProjPresentWords, endDateStr) THEN Null
                       ELSE normalizeDate(endDateStr),
           !.confidence = OrFifty(@) + 15]
      Classified(dateMatch, urlMatch) ==
        IF dateMatch.ok
        THEN Dated(Cap(dateMatch, part, 1), Cap(dateMatch, part, 2))
        ELSE IF urlMatch.ok
        THEN [project EXCEPT !.url = Whole(urlMatch, part)]
        ELSE IF project.name = ""
        THEN [project EXCEPT !.name = part, !.confidence = OrFifty(@) + 20]
        ELSE project
  IN Classified(Search(RxProjDatePattern, part), Search(RxUrl, part))

RECURSIVE ProjectHeaderParts(_, _)
ProjectHeaderParts(project, parts) ==
  IF Len(parts) = 0 THEN project
  ELSE ProjectHeaderParts(ProjectHeaderPart(project, Head(parts)), Tail(parts))

parseProjectHeader(header) ==
  LET Clamped(project) == [project EXCEPT !.confidence = Clamp(OrFifty(@))]
  IN Clamped(ProjectHeaderParts(NewProject, TrimAll(Split(header, {"|"}))))

\* if (currentProject && currentProject.name) projects.push(currentProject)
PushProject(st) ==
  IF st.open /\ st.cur.name # ""
  THEN Append(st.list, [st.cur EXCEPT !.description = st.bullets])
  ELSE st.list

ParseProjectsLine(st, line) ==
  LET Technologies(bulletText, techMatch) ==
        IF techMatch.ok
        THEN [st EXCEPT !.cur.technologies =
                           <<TrimAll(Split(Cap(techMatch, bulletText, 1), {","}))>>]
        ELSE st
      Bullet(bulletText) ==
        IF Test(RxTechLead, bulletText)
        THEN Technologies(bulletText, Search(RxTechList, bulletText))
        ELSE [st EXCEPT !.bullets = Append(@, bulletText)]
      Line(trimmed, h3Match, bulletMatch) ==
        IF trimmed = "" THEN st
        ELSE IF h3Match.ok
        THEN [list |-> PushProject(st), open |-> TRUE,
              cur |-> parseProjectHeader(Cap(h3Match, trimmed, 1)),
              bullets |-> <<>>]
        ELSE IF bulletMatch.ok /\ st.open
        THEN Bullet(Cap(bulletMatch, trimmed, 1))
        ELSE IF ~st.open /\ ~StartsWith(trimmed, "#")
        THEN [st EXCEPT !.open = TRUE, !.cur = parseProjectHeader(trimmed),
                        !.bullets = <<>>]
        ELSE st
      Trimmed(trimmed) ==
        Line(trimmed, Search(RxH3, trimmed), Search(RxBullet, trimmed))
  IN Trimmed(Trim(line))

RECURSIVE ParseProjectsLoop(_, _, _)
ParseProjectsLoop(st, lines, i) ==
  IF i > Len(lines) THEN st
  ELSE ParseProjectsLoop(ParseProjectsLine(st, lines[i]), lines, i + 1)

parseProjects(lines) ==
  PushProject(
    ParseProjectsLoop(
      [list |-> <<>>, open |-> FALSE, cur |-> NewProject, bullets |-> <<>>],
      lines, 1))

(***************************************************************************)
(* parsePersonalInfo                                                       *)
(***************************************************************************)
RxMailCh == RxCls(WordCh \cup {".", "-"})
RxEmail ==
  RxCat(<<RxPlus(RxMailCh), RxLit("@"), RxPlus(RxMailCh), RxLit("."),
          RxPlus(RxCls(WordCh))>>)
RxPhoneSep == RxOpt(RxCls({"-", "."} \cup SpaceCh))
\* (?:\+?1[-.\s]?)?\(?\d{3}\)?[-.\s]?\d{3}[-.\s]?\d{4}
RxPhoneUs ==
  RxCat(<<RxOpt(RxCat(<<RxOpt(RxLit("+")), RxLit("1"), RxPhoneSep>>)),
          RxOpt(RxLit("(")), RxRep(RxCls(Digit), 3, 3), RxOpt(RxLit(")")),
          RxPhoneSep, RxRep(RxCls(Digit), 3, 3), RxPhoneSep,
          RxRep(RxCls(Digit), 4, 4)>>)
\* \+\d{1,3}[-.\s]?\d{2,4}[-.\s]?\d{3,4}[-.\s]?\d{3,4}
RxPhoneIntl ==
  RxCat(<<RxLit("+"), RxRep(RxCls(Digit), 1, 3), RxPhoneSep,
          RxRep(RxCls(Digit), 2, 4), RxPhoneSep, RxRep(RxCls(Digit), 3, 4),
          RxPhoneSep, RxRep(RxCls(Digit), 3, 4)>>)
RxPhone == RxAlt(<<RxPhoneUs, RxPhoneIntl>>)
RxHandle == RxGrp(1, RxPlus(RxNot(SpaceCh \cup {","})))
RxLinkedIn ==
  RxCat(<<RxAlt(<<RxLitI("linkedin.com/in/"),
                  RxCat(<<RxLitI("linkedin:"), RxStar(RxCls(SpaceCh))>>)>>),
          RxHandle>>)
RxGithub ==
  RxCat(<<RxAlt(<<RxLitI("github.com/"),
                  RxCat(<<RxLitI("github:"), RxStar(RxCls(SpaceCh))>>)>>),
          RxHandle>>)
RxPortfolio ==
  RxCat(<<RxAlt(<<RxLitI("portfolio"), RxLitI("website"), RxLitI("www")>>),
          RxDot, RxStar(RxCls(SpaceCh \cup {":"})), RxHandle>>)
\* [A-Z][a-z]+(?:\s[A-Z][a-z]+)*
RxCapWords ==
  RxCat(<<RxCls(Upper), RxPlus(RxCls(Lower)),
          RxStar(RxCat(<<RxCls(SpaceCh), RxCls(Upper), RxPlus(RxCls(Lower))>>))>>)
RxLocation ==
  RxCat(<<RxGrp(1, RxCapWords), RxOpt(RxLit(",")), RxStar(RxCls(SpaceCh)),
          RxAlt(<<RxRep(RxCls(Upper), 2, 2), RxCapWords>>)>>)

\* https?:\/\/[^\s]+ without the i flag
RxLink ==
  RxCat(<<RxLit("http"), RxOpt(RxLit("s")), RxLit("://"), RxPlus(RxNot(SpaceCh))>>)

\* lines.find((l) => l.trim() && !l.startsWith('#')), or Undefined
FirstNonEmptyLine(lines) ==
  LET First(ok) == IF ok = {} THEN Undefined ELSE lines[MinOf(ok)]
  IN First({i \in 1..Len(lines) :
              Trim(lines[i]) # "" /\ ~StartsWith(lines[i], "#")})

\* the first line without its e-mail addresses, phone numbers and links
CleanedName(line) ==
  Trim(RemoveAll(RxLink, RemoveAll(RxPhoneUs, RemoveAll(RxEmail, Trim(line)))))

\* <<the record>>, or <<>> for null: when neither a name, an e-mail nor a
\* phone was found
parsePersonalInfo(lines) ==
  LET Found(m, text) == IF m.ok THEN Whole(m, text) ELSE Undefined
      Score(m, points) == IF m.ok THEN points ELSE 0
      OrNull(info) ==
        IF ~Falsy(info.name) \/ ~Falsy(info.email) \/ ~Falsy(info.phone)
        THEN <<info>> ELSE <<>>
      Info(text, emailMatch, phoneMatch, linkedInMatch, githubMatch,
           portfolioMatch, locationMatch, cleaned, hasName) ==
        [name |-> IF hasName THEN cleaned ELSE "",
         email |-> Found(emailMatch, text),
         phone |-> Found(phoneMatch, text),
         linkedIn |-> Found(linkedInMatch, text),
         github |-> Found(githubMatch, text),
         portfolio |-> Found(portfolioMatch, text),
         location |-> Found(locationMatch, text),
         confidence |->
           Clamp(50 + Score(emailMatch, 10) + Score(phoneMatch, 10)
                    + Score(linkedInMatch, 10) + Score(githubMatch, 10)
                    + Score(locationMatch, 5) + (IF hasName THEN 10 ELSE 0))]
      Named(text, cleaned) ==
        Info(text, Search(RxEmail, text), Search(RxPhone, text),
             Search(RxLinkedIn, text), Search(RxGithub, text),
             Search(RxPortfolio, text), Search(RxLocation, text), cleaned,
             cleaned # "" /\ Len(cleaned) > 1 /\ Len(cleaned) < 50)
      Cleaned(firstNonEmptyLine) ==
        IF firstNonEmptyLine = Undefined THEN ""
        ELSE CleanedName(firstNonEmptyLine)
  IN IF Len(lines) = 0 THEN <<>>
     ELSE OrNull(Named(Join(lines, "\n"), Cleaned(FirstNonEmptyLine(lines))))

(***************************************************************************)
(* buildParsedResume                                                       *)
(***************************************************************************)
RECURSIVE SumSeq(_)
SumSeq(ns) == IF Len(ns) = 0 THEN 0 ELSE Head(ns) + SumSeq(Tail(ns))

\* Math.round(a / b) for a >= 0 and b > 0: halves round up
RoundDiv(a, b) == (2 * a + b) \div (2 * b)

ConfidencesOf(list) == [i \in 1..Len(list) |-> list[i].confidence]
SetOrder_Unnumbered(list) == list
\* list.forEach((e, i) => (e.order = i))
SetOrder(list) == [i \in 1..Len(list) |-> [list[i] EXCEPT !.order = i - 1]]

\* the confidence of a resume with no record, and the review threshold
DefaultConfidence == 30
ReviewThreshold == 70

\* the four warning texts (in the source they are written in Chinese)
WarnPersonalInfo == "cannot parse personal information"
WarnExperience == "no work experience found"
WarnEducation == "no education found"
WarnSkills == "no skills found"

OverallConfidence_Truncated(confidences) ==
  IF Len(confidences) > 0
  THEN SumSeq(confidences) \div Len(confidences)
  ELSE DefaultConfidence

OverallConfidence(confidences) ==
  IF Len(confidences) > 0
  THEN RoundDiv(SumSeq(confidences), Len(confidences))
  ELSE DefaultConfidence

NeedsReview_AtThreshold(overallConfidence) == overallConfidence <= ReviewThreshold
NeedsReview(overallConfidence) == overallConfidence < ReviewThreshold

Warnings_SkillsSilent(personalInfo, experiences, education, skills) ==
  (IF Len(personalInfo) = 0 THEN <<WarnPersonalInfo>> ELSE <<>>)
    \o (IF Len(experiences) = 0 THEN <<WarnExperience>> ELSE <<>>)
    \o (IF Len(education) = 0 THEN <<WarnEducation>> ELSE <<>>)

Warnings(personalInfo, experiences, education, skills) ==
  (IF Len(personalInfo) = 0 THEN <<WarnPersonalInfo>> ELSE <<>>)
    \o (IF Len(experiences) = 0 THEN <<WarnExperience>> ELSE <<>>)
    \o (IF Len(education) = 0 THEN <<WarnEducation>> ELSE <<>>)
    \o (IF Len(skills) = 0 THEN <<WarnSkills>> ELSE <<>>)

buildParsedResume(md) ==
  LET Scored(personalInfo, summary, experiences, education, skills, projects,
             overallConfidence) ==
        [rawText |-> md,
         personalInfo |-> personalInfo,
         summary |-> summary,
         experiences |-> SetOrder(experiences),
         education |-> SetOrder(education),
         skills |-> skills,
         projects |-> SetOrder(projects),
         overallConfidence |-> overallConfidence,
         needsReview |-> NeedsReview(overallConfidence),
         errors |-> <<>>,
         warnings |-> Warnings(personalInfo, experiences, education, skills)]
      Built(personalInfo, summary, experiences, education, skills, projects) ==
        Scored(personalInfo, summary, experiences, education, skills, projects,
               OverallConfidence(
                 ConfidencesOf(personalInfo) \o ConfidencesOf(experiences)
                   \o ConfidencesOf(education) \o ConfidencesOf(skills)
                   \o ConfidencesOf(projects)))
      Parsed(sections) ==
        IF TypeError \in DOMAIN sections THEN Throw(TypeError)
        ELSE
        Built(parsePersonalInfo(SectionLines(sections, "PersonalInfo")),
              parseSummary(SectionLines(sections, "Summary")),
              parseExperiences(SectionLines(sections, "Experience")),
              parseEducation(SectionLines(sections, "Education")),
              parseSkills(SectionLines(sections, "Skills")),
              parseProjects(SectionLines(sections, "Projects")))
  IN Parsed(extractSections(md))

(***************************************************************************)
(* Specification SpecDate: normalizeDate applied to one input              *)
(***************************************************************************)
Years == {"2021", "1999", "2000"}
MonthDigits == {"1", "3", "03", "9", "10", "12", "13", "0", "00"}
MonthWords ==
  {"March", "march", "MAY", "Jan", "dec", "Sept", "Autumn", "Q1", "12", "September"}
OtherDates ==
  {"", "Present", "2021-03", "03/21", "March, 2019", " 2021", "2021 ", "20211",
   "3/2021/1", "March", "1/1/2021", "Mar. 2019", "March 19", "03-2021", "Now",
   "in March 2019"}
DateInputs ==
  Years
    \cup {m \o "/" \o y : m \in MonthDigits, y \in Years}
    \cup {w \o " " \o y : w \in MonthWords, y \in Years}
    \cup {w \o "  " \o y : w \in {"June", "Fall"}, y \in Years}
    \cup OtherDates

InitDate ==
  /\ pc = "start"
  /\ dateStr \in DateInputs
  /\ dateOut = ""
  /\ IdleExcept("date")

NormalizeDateCall ==
  /\ pc = "start"
  /\ pc' = "done"
  /\ dateOut' = normalizeDate(dateStr)
  /\ UNCHANGED dateStr
  /\ UnchangedExcept("date")

NextDate == NormalizeDateCall
SpecDate == InitDate /\ [][NextDate]_vars

(***************************************************************************)
(* Specification SpecParse: buildParsedResume applied to one markdown text *)
(***************************************************************************)
Openings ==
  <<"",
    "Resume of John\n",
    "## Certifications\nAWS Certified\n",
    "## Contact\nJohn Smith\njohn@x.io\n",
    "## Personal Information\nJohn Smith | john@x.io | 555-123-4567\nlinkedin.com/in/john github.com/john\n">>
ExperiencePool ==
  <<"### Software Engineer | Acme Corp | Austin, TX | Jan 2021 - Present\n- Built a tool\n",
    "### 2019 - 2020 | Senior Analyst | Beta LLC | 2021 - Now\n",
    "### Gamma Inc\n* Sold things\n",
    "### Intern | 3/2018 - 9/2018\n- Made coffee\n">>
EducationPool ==
  <<"### MIT | B.S. in Computer Science | 2015 - 2019 | GPA: 3.8\n",
    "### 2010 - 2014 | Master of Arts | Boston College | 2015 - Expected\n",
    "### Night classes\n- Pottery\n">>
SkillPool ==
  <<"Python, AWS, Leadership\n", "### Tools\n- Figma; Excel\n", "Cooking\n">>
ProjectPool ==
  <<"### Resume Tool | https://x.io/r | 2020 - Ongoing\n- Tech: React, Node\n- Built it\n",
    "### 2018 - 2019 | Old Tool | 2019 - 2020 | 2020 - 2021\n",
    "Side project\n">>

RECURSIVE PoolEntries(_, _)
\* the first n entries of a pool (cyclically, should n exceed the pool)
PoolEntries(pool, n) ==
  IF n = 0 THEN ""
  ELSE PoolEntries(pool, n - 1) \o pool[((n - 1) % Len(pool)) + 1]

Block(heading, pool, n) ==
  IF n = 0 THEN "" ELSE heading \o "\n" \o PoolEntries(pool, n)

EntryCounts ==
  {c \in (0..MaxEntries) \X (0..MaxEntries) \X (0..MaxEntries) \X (0..MaxEntries) :
     c[1] + c[2] + c[3] + c[4] <= MaxTotal}

Markdowns ==
  {Openings[open]
     \o Block("## Experience", ExperiencePool, c[1])
     \o Block("## Education", EducationPool, c[2])
     \o Block("## Skills", SkillPool, c[3])
     \o Block("## Projects", ProjectPool, c[4]) :
   open \in 1..Len(Openings), c \in EntryCounts}

InitParse ==
  /\ pc = "start"
  /\ mdText \in Markdowns
  /\ resume = <<>>
  /\ IdleExcept("parse")

BuildParsedResumeCall ==
  /\ pc = "start"
  /\ pc' = "done"
  /\ resume' = buildParsedResume(mdText)
  /\ UNCHANGED mdText
  /\ UnchangedExcept("parse")

NextParse == BuildParsedResumeCall
SpecParse == InitParse /\ [][NextParse]_vars

(***************************************************************************)
(* Specification SpecHeader: parseExperienceHeader applied to a header of  *)
(* four parts, a job title, a date range and two others, in every order    *)
(***************************************************************************)
TitleParts == {"Software Engineer", "Team Lead"}
DateParts == {"Jan 2021 - Present", "3/2018~9/2019"}
OtherParts == {"Acme Corp", "San Francisco, CA", ""}
Orderings == {p \in [1..4 -> 1..4] : \A i, j \in 1..4 : p[i] = p[j] => i = j}
BaseRoles == <<"title", "other", "other", "date">>

Arrange(base, p) == [k \in 1..4 |-> base[p[k]]]

InitHeader ==
  /\ pc = "start"
  /\ \E t \in TitleParts, d \in DateParts, o1 \in OtherParts, o2 \in OtherParts,
        p \in Orderings :
       /\ headerParts = Arrange(<<t, o1, o2, d>>, p)
       /\ headerRoles = Arrange(BaseRoles, p)
  /\ expOut = <<>>
  /\ IdleExcept("header")

ParseExperienceHeaderCall ==
  /\ pc = "start"
  /\ pc' = "done"
  /\ expOut' = parseExperienceHeader(Join(headerParts, " | "))
  /\ UNCHANGED <<headerParts, headerRoles>>
  /\ UnchangedExcept("header")

NextHeader == ParseExperienceHeaderCall
SpecHeader == InitHeader /\ [][NextHeader]_vars

(***************************************************************************)
(* Specification SpecSkills: parseSkills applied to the lines of a section *)
(***************************************************************************)
SkillLineChoices ==
  {"Python, AWS, Leadership", "Python, C, R", "- Figma; Excel", "### Tools",
   "### Soft Skills", "Cooking", "", "* C++;; Go , Public Speaking"}

RECURSIVE SeqsUpTo(_, _)
\* the sequences of at most n elements of a set
SeqsUpTo(S, n) ==
  IF n = 0 THEN {<<>>}
  ELSE SeqsUpTo(S, n - 1)
         \cup {Append(q, x) : q \in {r \in SeqsUpTo(S, n - 1) : Len(r) = n - 1},
                              x \in S}

InitSkills ==
  /\ pc = "start"
  /\ skillLines \in SeqsUpTo(SkillLineChoices, MaxSkillLines)
  /\ skillsOut = <<>>
  /\ IdleExcept("skills")

ParseSkillsCall ==
  /\ pc = "start"
  /\ pc' = "done"
  /\ skillsOut' = parseSkills(skillLines)
  /\ UNCHANGED skillLines
  /\ UnchangedExcept("skills")

NextSkills == ParseSkillsCall
SpecSkills == InitSkills /\ [][NextSkills]_vars

(***************************************************************************)
(* The list editors: ExperienceListEditor, EducationListEditor and         *)
(* ProjectListEditor.  The three have the same handlers; a record is       *)
(* modelled by its id and its order, and each handler ends with onChange,  *)
(* which makes its argument the next data prop.                            *)
(***************************************************************************)
EditorKinds == {"experience", "education", "project"}

\* uuidv4(): an id no record of the list has
FreshId(list) ==
  CHOOSE n \in 1..(Len(list) + 1) : \A i \in 1..Len(list) : list[i].id # n

\* newData.forEach((e, i) => (e.order = i))
Renumber(list) == [i \in 1..Len(list) |-> [list[i] EXCEPT !.order = i - 1]]

\* [newData[i], newData[j]] = [newData[j], newData[i]]
Swap(list, i, j) ==
  [k \in 1..Len(list) |-> IF k = i THEN list[j] ELSE IF k = j THEN list[i] ELSE list[k]]

\* data.filter((e) => e.id !== id)
WithoutId(list, id) ==
  KeepLines(list, {k \in 1..Len(list) : list[k].id # id})

InitEdit ==
  /\ pc = "editing"
  /\ editorKind \in EditorKinds
  /\ \E n \in 0..MaxItems : data = [i \in 1..n |-> [id |-> i, order |-> i - 1]]
  /\ IdleExcept("edit")

handleAdd ==
  /\ Len(data) < MaxItems
  /\ data' = Append(data, [id |-> FreshId(data), order |-> Len(data)])
  /\ UNCHANGED <<pc, editorKind>>
  /\ UnchangedExcept("edit")

handleRemove ==
  /\ \E k \in 1..Len(data) : data' = WithoutId(data, data[k].id)
  /\ UNCHANGED <<pc, editorKind>>
  /\ UnchangedExcept("edit")

\* index counts from 0 in the source, from 1 here
handleMoveUp ==
  /\ \E index \in 1..Len(data) :
       /\ index # 1
       /\ data' = Renumber(Swap(data, index - 1, index))
  /\ UNCHANGED <<pc, editorKind>>
  /\ UnchangedExcept("edit")

handleMoveDown ==
  /\ \E index \in 1..Len(data) :
       /\ index # Len(data)
       /\ data' = Renumber(Swap(data, index, index + 1))
  /\ UNCHANGED <<pc, editorKind>>
  /\ UnchangedExcept("edit")

NextEdit == handleAdd \/ handleRemove \/ handleMoveUp \/ handleMoveDown
SpecEdit == InitEdit /\ [][NextEdit]_vars

(***************************************************************************)
(* extractPdfText: the loop over the text items of one page                *)
(***************************************************************************)
\* the vertical distance above which an item starts a new line, the
\* horizontal gap above which a space is put in, and the width the loop
\* takes a character to have
LineThreshold == 5
GapThreshold == 3
CharWidth == 5

Abs(n) == IF n < 0 THEN 0 - n ELSE n

\* /^[bullets\-\*]$|^\d+[.)]$|^[a-z][.)]$/
RxIsBullet ==
  RxAlt(<<RxCat(<<RxBol, RxCls({BulletGlyph, "-", "*"}), RxEol>>),
          RxCat(<<RxBol, RxPlus(RxCls(Digit)), RxCls({".", ")"}), RxEol>>),
          RxCat(<<RxBol, RxCls(Lower), RxCls({".", ")"}), RxEol>>)>>)

BulletTag == "[BULLET] "

WithSeparator_AnyGap(text, item, x0, y0, isBullet) ==
  IF Abs(item.y - y0) > LineThreshold
  THEN IF text # "" /\ ~EndsWith(text, "\n") THEN text \o "\n" ELSE text
  ELSE IF text # "" /\ ~EndsWith(text, " ") /\ ~isBullet
       THEN text \o " "
       ELSE text

\* the first if / else if of the loop body: a line break or a space
WithSeparator(text, item, x0, y0, isBullet) ==
  IF Abs(item.y - y0) > LineThreshold
  THEN IF text # "" /\ ~EndsWith(text, "\n") THEN text \o "\n" ELSE text
  ELSE IF item.x - x0 > GapThreshold /\ text # "" /\ ~EndsWith(text, " ")
            /\ ~isBullet
       THEN text \o " "
       ELSE text

WithItem_NoLineBreak(text, item, isBullet) ==
  IF isBullet THEN text \o BulletTag ELSE text \o item.str

\* the second if / else: the bullet tag on a line of its own, or the string
WithItem(text, item, isBullet) ==
  IF isBullet
  THEN (IF text # "" /\ ~EndsWith(text, "\n") THEN text \o "\n" ELSE text)
         \o BulletTag
  ELSE text \o item.str

\* the fragments of the bullet line, each at a column and a height
BulletLine == <<BulletGlyph, "Built", "a", "tool">>
Columns == {6 * c : c \in 0..MaxCols}
Heights == {700, 686}

InitLayout ==
  /\ pc = "start"
  /\ \E xs \in [1..4 -> Columns], ys \in [1..4 -> Heights] :
       /\ \A k \in 1..3 : xs[k] < xs[k + 1]
       /\ items = [k \in 1..4 |-> [str |-> BulletLine[k], x |-> xs[k], y |-> ys[k]]]
  /\ itemIndex = 1
  /\ pageText = ""
  /\ lastX = 0
  /\ lastY = 0
  /\ fullText = ""
  /\ IdleExcept("layout")

\* one pass of: for (const item of textContent.items)
PlaceItem ==
  /\ pc = "start"
  /\ itemIndex <= Len(items)
  /\ LET item == items[itemIndex]
         isBullet == Test(RxIsBullet, item.str)
     IN /\ pageText' = WithItem(WithSeparator(pageText, item, lastX, lastY, isBullet),
                                item, isBullet)
        /\ lastX' = item.x + Len(item.str) * CharWidth
        /\ lastY' = item.y
  /\ itemIndex' = itemIndex + 1
  /\ UNCHANGED <<pc, items, fullText>>
  /\ UnchangedExcept("layout")

\* fullText += pageText + "\n\n", after the last item of the page
EndPage ==
  /\ pc = "start"
  /\ itemIndex > Len(items)
  /\ fullText' = fullText \o pageText \o "\n\n"
  /\ pc' = "done"
  /\ UNCHANGED <<items, itemIndex, pageText, lastX, lastY>>
  /\ UnchangedExcept("layout")

NextLayout == PlaceItem \/ EndPage
SpecLayout == InitLayout /\ [][NextLayout]_vars

(***************************************************************************)
(* Claims about buildParsedResume (SpecParse)                              *)
(***************************************************************************)
Returned == pc = "done" /\ resume # <<>>

OrderValues(list) == {list[i].order : i \in 1..Len(list)}
OrderedByPosition(list) ==
  /\ \A i \in 1..Len(list) : list[i].order = i - 1
  /\ OrderValues(list) = 0..(Len(list) - 1)
  /\ \A i, j \in 1..Len(list) : list[i].order = list[j].order => i = j

\* C1: in the returned ParsedResume each of the lists experiences, education
\* and projects of length n carries exactly the order values 0..n-1, no gap
\* and no duplicate, and the record at position i (from 0) has order i.
C1_OrderIsPosition ==
  Returned =>
    /\ OrderedByPosition(resume.experiences)
    /\ OrderedByPosition(resume.education)
    /\ OrderedByPosition(resume.projects)

C1_Witness ==
  /\ Returned
  /\ Len(resume.experiences) = 2
  /\ resume.experiences[2].order = 1
  /\ Len(resume.projects) = 1

AllRecords(r) ==
  r.personalInfo \o r.experiences \o r.education \o r.skills \o r.projects

\* C3: every record of the returned resume (personal info, experience,
\* education, project, skill) has a confidence in 0..100, also when several
\* parts of its header each added an increment.
C3_ConfidenceInRange ==
  Returned =>
    \A i \in 1..Len(AllRecords(resume)) :
      AllRecords(resume)[i].confidence \in 0..100

\* a personal-info block with every field and headers with two date ranges
\* (50 + 15 + 15 + 10 + 15 = 105 before the clamp)
C3_Witness ==
  /\ Returned
  /\ Len(resume.personalInfo) = 1
  /\ resume.personalInfo[1].confidence = 100
  /\ \E i \in 1..Len(resume.experiences) :
       /\ resume.experiences[i].confidence = 100
       /\ resume.experiences[i].title # ""
       /\ resume.experiences[i].company # ""

ConfidenceSum(r) == SumSeq(ConfidencesOf(AllRecords(r)))
RecordCount(r) == Len(AllRecords(r))

\* C4: overallConfidence is the mean of the confidences of all extracted
\* records, each counted once, rounded to the nearest integer (halves up);
\* it is 30 when no record was extracted.
C4_OverallIsRoundedMean ==
  Returned =>
    IF RecordCount(resume) = 0
    THEN resume.overallConfidence = 30
    ELSE /\ 2 * RecordCount(resume) * resume.overallConfidence
              <= 2 * ConfidenceSum(resume) + RecordCount(resume)
         /\ 2 * ConfidenceSum(resume) + RecordCount(resume)
              < 2 * RecordCount(resume) * (resume.overallConfidence + 1)

\* records of several categories whose mean is not an integer and rounds up
C4_Witness ==
  /\ Returned
  /\ Len(resume.personalInfo) = 1
  /\ Len(resume.experiences) >= 1
  /\ Len(resume.skills) >= 1
  /\ 2 * (ConfidenceSum(resume) % RecordCount(resume)) >= RecordCount(resume)
  /\ resume.overallConfidence
       = (ConfidenceSum(resume) \div RecordCount(resume)) + 1

\* C5: needsReview is true exactly when overallConfidence < 70; a resume
\* whose only records are skills of confidence 70 is not flagged.
C5_NeedsReviewIffBelow70 ==
  Returned => (resume.needsReview <=> resume.overallConfidence < 70)

C5_Witness ==
  /\ Returned
  /\ Len(resume.skills) >= 2
  /\ RecordCount(resume) = Len(resume.skills)
  /\ \A i \in 1..Len(resume.skills) : resume.skills[i].confidence = 70
  /\ resume.overallConfidence = 70
  /\ ~resume.needsReview

EmptyCategoryWarnings(r) ==
  (IF Len(r.personalInfo) = 0 THEN {WarnPersonalInfo} ELSE {})
    \cup (IF Len(r.experiences) = 0 THEN {WarnExperience} ELSE {})
    \cup (IF Len(r.education) = 0 THEN {WarnEducation} ELSE {})
    \cup (IF Len(r.skills) = 0 THEN {WarnSkills} ELSE {})
NoSectionDetected(md) == DOMAIN extractSections(md) \subseteq {"Unknown"}

\* C6: the warnings are exactly one per category among personal info,
\* experience, education and skills that yielded no record (none for
\* projects or certifications); an input without any detected section gives
\* overallConfidence 30, needsReview true, four warnings and no error.
C6_OneWarningPerEmptyCategory ==
  Returned =>
    /\ {resume.warnings[i] : i \in 1..Len(resume.warnings)}
         = EmptyCategoryWarnings(resume)
    /\ Len(resume.warnings) = Cardinality(EmptyCategoryWarnings(resume))
    /\ NoSectionDetected(mdText) =>
         /\ resume.overallConfidence = 30
         /\ resume.needsReview
         /\ Len(resume.warnings) = 4
         /\ resume.errors = <<>>

C6_Witness ==
  /\ Returned
  /\ mdText # ""
  /\ NoSectionDetected(mdText)
  /\ Len(resume.warnings) = 4
  /\ resume.overallConfidence = 30

(***************************************************************************)
(* Claims about parseExperienceHeader (SpecHeader)                         *)
(***************************************************************************)
HeaderParsed == pc = "done" /\ expOut # <<>>

\* the part with a role, and the two other parts in the order of the header
PartOfRole(role) ==
  headerParts[CHOOSE k \in 1..4 : headerRoles[k] = role]
FirstOther ==
  headerParts[CHOOSE k \in 1..4 :
                headerRoles[k] = "other"
                  /\ \A j \in 1..(k - 1) : headerRoles[j] # "other"]
SecondOther ==
  headerParts[CHOOSE k \in 1..4 :
                headerRoles[k] = "other"
                  /\ \E j \in 1..(k - 1) : headerRoles[j] = "other"]

\* what the two date ranges of DateParts stand for
DatesOf(part) ==
  IF part = "Jan 2021 - Present"
  THEN [startDate |-> "2021-01-01", endDate |-> Null, isCurrent |-> TRUE]
  ELSE [startDate |-> "2018-03-01", endDate |-> "2019-09-01", isCurrent |-> FALSE]

TitleAndDatesByContent ==
  /\ expOut.title = PartOfRole("title")
  /\ expOut.startDate = DatesOf(PartOfRole("date")).startDate
  /\ expOut.endDate = DatesOf(PartOfRole("date")).endDate
  /\ expOut.isCurrent = DatesOf(PartOfRole("date")).isCurrent

\* C8 as stated: wherever the title part and the date part stand among the
\* two other parts, title and dates are the same, company is the earlier
\* and location the later of the two other parts.
C8_AsStated ==
  HeaderParsed =>
    /\ TitleAndDatesByContent
    /\ expOut.company = FirstOther
    /\ expOut.location = SecondOther

\* C8: the parts of a header are classified by content, not by position: the
\* date part gives startDate, endDate and isCurrent, the title-keyword part
\* gives title; of the two other parts the earlier is company and the later
\* location when the earlier is not empty, while an empty earlier part leaves
\* company to be taken by the later one and no location is set.
C8_PositionIndependent ==
  HeaderParsed =>
    /\ TitleAndDatesByContent
    /\ IF FirstOther # ""
       THEN expOut.company = FirstOther /\ expOut.location = SecondOther
       ELSE expOut.company = SecondOther /\ expOut.location = Undefined

\* the header of the example, and one with the date first and the title last
C8_Witness ==
  /\ HeaderParsed
  /\ \/ /\ headerParts = <<"Software Engineer", "Acme Corp", "San Francisco, CA",
                           "Jan 2021 - Present">>
        /\ expOut.title = "Software Engineer"
        /\ expOut.company = "Acme Corp"
        /\ expOut.location = "San Francisco, CA"
        /\ expOut.startDate = "2021-01-01"
        /\ expOut.endDate = Null
        /\ expOut.isCurrent
     \/ /\ headerRoles = <<"date", "other", "other", "title">>
        /\ expOut.title = "Team Lead"
        /\ expOut.company = "San Francisco, CA"
        /\ expOut.location = "Acme Corp"

(***************************************************************************)
(* Claims about parseSkills (SpecSkills)                                   *)
(***************************************************************************)
\* the names of a content line: its ',' and ';' separated pieces, trimmed,
\* the empty ones left out (a leading bullet marker is not part of a name)
LineNames(line) ==
  LET trimmed == Trim(line)
      text == IF Test(RxBullet, trimmed) THEN Cap(Search(RxBullet, trimmed), trimmed, 1)
              ELSE trimmed
      pieces == TrimAll(Split(text, {",", ";"}))
  IN KeepLines(pieces, {k \in 1..Len(pieces) : pieces[k] # ""})

IsSubHeading(line) == Test(RxH3, Trim(line))

\* the category the claim gives a name under the category of the last heading
StatedCategory(name, headingCategory) ==
  IF \E k \in softSkillsKeywords : Includes(ToLower(name), k) THEN "soft-skills"
  ELSE IF \E k \in techKeywords : Includes(ToLower(name), k) THEN "programming"
  ELSE IF \E i \in 1..Len(name) : Char(name, i) \in {"+", "#", ".", "-", "/"}
  THEN "programming"
  ELSE IF Len(name) >= 2 /\ \A i \in 1..Len(name) : Char(name, i) \in Upper
  THEN "programming"
  ELSE headingCategory

RECURSIVE StatedSkills(_, _, _)
\* one skill per name of every content line from line i on, in order
StatedSkills(lines, i, headingCategory) ==
  IF i > Len(lines) THEN <<>>
  ELSE IF IsSubHeading(lines[i])
  THEN StatedSkills(lines, i + 1,
                    SkillHeadingCategory(Cap(Search(RxH3, Trim(lines[i])),
                                             Trim(lines[i]), 1)))
  ELSE [k \in 1..Len(LineNames(lines[i])) |->
          [name |-> LineNames(lines[i])[k],
           category |-> StatedCategory(LineNames(lines[i])[k], headingCategory),
           confidence |-> 70]]
         \o StatedSkills(lines, i + 1, headingCategory)

\* C9: parseSkills returns, for the content lines in order, exactly one Skill
\* per non-empty comma- or semicolon-separated name, with the category given
\* by the priority soft-skill phrase, core technology, one of + # . - / or
\* all upper case, then the category of the last sub-heading (other if none).
C9_OneSkillPerName ==
  pc = "done" /\ skillLines # <<>> =>
    skillsOut = StatedSkills(skillLines, 1, "other")

(***************************************************************************)
(* Claims about the list editors (SpecEdit)                                *)
(***************************************************************************)
\* C2: from a list ordered 0..n-1, after any sequence of add, remove,
\* move-up and move-down in a list editor, the order values of the list of
\* length m are a permutation of 0..m-1, without gap or duplicate.
C2_OrderIsPermutation ==
  editorKind \in EditorKinds =>
    /\ {data[i].order : i \in 1..Len(data)} = 0..(Len(data) - 1)
    /\ \A i, j \in 1..Len(data) : data[i].order = data[j].order => i = j

(***************************************************************************)
(* Claims about the layout reconstruction (SpecLayout)                     *)
(***************************************************************************)
\* the page is done and its four fragments were all at one height
BulletLineDone ==
  /\ pc = "done"
  /\ Len(items) = 4
  /\ \A k \in 1..4 : items[k].y = items[1].y
  /\ \A k \in 1..3 : items[k].x < items[k + 1].x

\* C10 as stated: the fragments of the bullet line at one height and with
\* increasing x give '[BULLET] Built a tool', whatever the x positions.
C10_AsStated ==
  BulletLineDone => pageText = "[BULLET] Built a tool"

\* the space before fragment k: there when the fragment starts more than 3
\* units right of where the one before ends by the estimate x + 5 * length
SpaceBefore(k) ==
  IF items[k].x - (items[k - 1].x + 5 * Len(items[k - 1].str)) > 3
  THEN " " ELSE ""

\* C10: the fragments of the bullet line at one height and with increasing
\* x give the tag '[BULLET] ' followed by the three words, where a word is
\* separated from the word before by one space exactly when it starts more
\* than 3 units right of that word's estimated end (x + 5 per character),
\* and is joined to it otherwise.
C10_SpacesFollowGaps ==
  BulletLineDone =>
    pageText = "[BULLET] Built" \o SpaceBefore(3) \o "a" \o SpaceBefore(4) \o "tool"

C10_Witness ==
  /\ BulletLineDone
  /\ pageText = "[BULLET] Built a tool"
  /\ fullText = "[BULLET] Built a tool\n\n"

(***************************************************************************)
(* Claims about normalizeDate (SpecDate)                                   *)
(***************************************************************************)
AllIn(s, S) == \A i \in 1..Len(s) : Char(s, i) \in S
DigitVal(c) == CHOOSE d \in 0..9 : Char(DigitSeq, d + 1) = c
RECURSIVE NatOf(_)
NatOf(s) ==
  IF Len(s) = 0 THEN 0
  ELSE 10 * NatOf(SubSeq(s, 1, Len(s) - 1)) + DigitVal(Char(s, Len(s)))

\* the three input shapes the claim names, read off the text itself
IsYearShape(s) == Len(s) = 4 /\ AllIn(s, Digit)
IsSlashShape(s) ==
  \E n \in 1..2 :
    /\ Len(s) = n + 5
    /\ AllIn(SubSeq(s, 1, n), Digit)
    /\ Char(s, n + 1) = "/"
    /\ AllIn(SubSeq(s, n + 2, n + 5), Digit)
\* <word><blanks>YYYY: the position of the last word character, or 0
WordYearSplit(s) ==
  IF \E n \in 1..(Len(s) - 5) :
       /\ AllIn(SubSeq(s, 1, n), WordCh)
       /\ AllIn(SubSeq(s, n + 1, Len(s) - 4), SpaceCh)
       /\ AllIn(SubSeq(s, Len(s) - 3, Len(s)), Digit)
  THEN CHOOSE n \in 1..(Len(s) - 5) :
         /\ AllIn(SubSeq(s, 1, n), WordCh)
         /\ AllIn(SubSeq(s, n + 1, Len(s) - 4), SpaceCh)
         /\ AllIn(SubSeq(s, Len(s) - 3, Len(s)), Digit)
  ELSE 0
IsWordYearShape(s) == WordYearSplit(s) > 0
WordOf(s) == ToLower(SubSeq(s, 1, WordYearSplit(s)))
YearOf(s) == SubSeq(s, Len(s) - 3, Len(s))

\* the calendar, stated apart from the code's table
FullMonths ==
  <<"january", "february", "march", "april", "may", "june", "july", "august",
    "september", "october", "november", "december">>
IsMonthName(w) ==
  \E i \in 1..12 : w = FullMonths[i] \/ w = SubSeq(FullMonths[i], 1, 3)
MonthIndex(w) ==
  CHOOSE i \in 1..12 : w = FullMonths[i] \/ w = SubSeq(FullMonths[i], 1, 3)
TwoDigits(n) == Char(DigitSeq, (n \div 10) + 1) \o Char(DigitSeq, (n % 10) + 1)

\* YYYY-MM-DD with a month in 01..12 and a day in 01..31
WellFormedDate(d) ==
  /\ Len(d) = 10
  /\ AllIn(SubSeq(d, 1, 4), Digit)
  /\ Char(d, 5) = "-"
  /\ AllIn(SubSeq(d, 6, 7), Digit)
  /\ Char(d, 8) = "-"
  /\ AllIn(SubSeq(d, 9, 10), Digit)
  /\ NatOf(SubSeq(d, 6, 7)) \in 1..12
  /\ NatOf(SubSeq(d, 9, 10)) \in 1..31

SlashMonth(s) == SubSeq(s, 1, Len(s) - 5)

months ==
  <<"Jan", "Feb", "Mar", "Apr", "May", "Jun",
    "Jul", "Aug", "Sep", "Oct", "Nov", "Dec">>

\* what parseInt(s, 10) reads: white space, an optional sign, digits
RxParseInt ==
  RxCat(<<RxBol, RxStar(RxCls(SpaceCh)), RxGrp(1, RxOpt(RxCls({"+", "-"}))),
          RxGrp(2, RxPlus(RxCls(Digit)))>>)

\* months[parseInt(s, 10) - 1] || '': a month name when s starts with an
\* integer of 1..12, the empty string when it starts with another integer
\* or with none (NaN)
MonthLabel(s) ==
  LET Label(n) == IF n \in 1..12 THEN months[n] ELSE ""
      Read(m) ==
        IF m.ok /\ Cap(m, s, 1) # "-" THEN Label(NatOf(Cap(m, s, 2))) ELSE ""
  IN Read(Search(RxParseInt, s))

formatDate(date) ==
  LET Formatted(parts) ==
        IF Len(parts) >= 2 THEN MonthLabel(parts[2]) \o " " \o parts[1] ELSE date
  IN IF Falsy(date) THEN "Present" ELSE Formatted(Split(date, {"-"}))

RECURSIVE Flatten(_)
\* the lines pushed for the entries of a list, one after the other
Flatten(groups) ==
  IF Len(groups) = 0 THEN <<>> ELSE Head(groups) \o Flatten(Tail(groups))

\* for (const bullet of description) lines.push(`- ${bullet}`)
BulletLines(description) ==
  [i \in 1..Len(description) |-> "- " \o description[i]]

\* [...list].sort((a, b) => a.order - b.order), a stable sort
SortByOrder(list) ==
  LET Before(j, i) ==
        list[j].order < list[i].order \/ (list[j].order = list[i].order /\ j < i)
      Rank(i) == Cardinality({j \in 1..Len(list) : Before(j, i)}) + 1
  IN [k \in 1..Len(list) |-> list[CHOOSE i \in 1..Len(list) : Rank(i) = k]]

\* [a, b, c].filter(truthy).join(' | ') pushed as a line when not empty
JoinedTruthy(values) ==
  LET Line(kept) == IF kept = {} THEN <<>> ELSE <<Join(KeepLines(values, kept), " | ")>>
  IN Line({i \in 1..Len(values) : ~Falsy(values[i])})

PersonalInfoLines(personalInfo) ==
  IF Len(personalInfo) = 0 THEN <<>>
  ELSE <<"## Personal Information\n">>
         \o (IF Falsy(personalInfo[1].name) THEN <<>> ELSE <<personalInfo[1].name>>)
         \o JoinedTruthy(<<personalInfo[1].email, personalInfo[1].phone,
                           personalInfo[1].location>>)
         \o JoinedTruthy(<<personalInfo[1].linkedIn, personalInfo[1].github,
                           personalInfo[1].portfolio>>)
         \o <<"">>

SummaryLines(summary) ==
  IF Falsy(summary) THEN <<>> ELSE <<"## Summary\n", summary, "">>

ExperienceEntryLines(exp) ==
  <<"### " \o exp.title \o " | " \o exp.company
      \o (IF Falsy(exp.location) THEN "" ELSE " | " \o exp.location)
      \o " | " \o formatDate(exp.startDate) \o " - "
      \o (IF exp.isCurrent THEN "Present" ELSE formatDate(exp.endDate))
      \o "\n">>
    \o BulletLines(exp.description) \o <<"">>

EducationEntryLines(edu) ==
  <<"### " \o edu.institution \o " | "
      \o (IF Falsy(edu.field) THEN edu.degree ELSE edu.degree \o " in " \o edu.field)
      \o (IF Falsy(edu.gpa) THEN "" ELSE " | GPA: " \o edu.gpa)
      \o " | " \o formatDate(edu.startDate) \o " - " \o formatDate(edu.endDate)
      \o "\n">>
    \o BulletLines(edu.description) \o <<"">>

categories == <<"programming", "tools", "soft-skills", "language", "other">>
categoryLabels ==
  <<"Technical Skills", "Tools & Frameworks", "Soft Skills", "Languages",
    "Other Skills">>

SkillCategoryLines(skills, c) ==
  LET Listed(ofCat) ==
        IF ofCat = {} THEN <<>>
        ELSE <<"### " \o categoryLabels[c] \o "\n">>
               \o [k \in 1..Cardinality(ofCat) |->
                     "- " \o KeepLines(skills, ofCat)[k].name]
               \o <<"">>
  IN Listed({i \in 1..Len(skills) : skills[i].category = categories[c]})

ProjectEntryLines(project) ==
  <<"### " \o project.name
      \o (IF Falsy(project.url) THEN "" ELSE " | " \o project.url)
      \o (IF Falsy(project.startDate) THEN ""
          ELSE " | " \o formatDate(project.startDate)
                 \o (IF project.endDate = Undefined THEN ""
                     ELSE " - " \o formatDate(project.endDate)))
      \o "\n">>
    \o (IF Len(project.technologies) = 0 \/ Len(project.technologies[1]) = 0
        THEN <<>>
        ELSE <<"**Technologies:** " \o Join(project.technologies[1], ", ")>>)
    \o BulletLines(project.description) \o <<"">>

SkillsLines(skills) ==
  IF Len(skills) = 0 THEN <<>>
  ELSE <<"## Skills\n">>
         \o Flatten([c \in 1..Len(categories) |-> SkillCategoryLines(skills, c)])

\* the lines of one list section: nothing for an empty list
ListSectionLines(heading, entryLines) ==
  IF Len(entryLines) = 0 THEN <<>> ELSE <<heading>> \o Flatten(entryLines)

generateMarkdown(d) ==
  Join(
    PersonalInfoLines(d.personalInfo)
      \o SummaryLines(d.summary)
      \o ListSectionLines("## Experience\n",
           [i \in 1..Len(d.experiences) |->
              ExperienceEntryLines(SortByOrder(d.experiences)[i])])
      \o ListSectionLines("## Education\n",
           [i \in 1..Len(d.education) |->
              EducationEntryLines(SortByOrder(d.education)[i])])
      \o SkillsLines(d.skills)
      \o ListSectionLines("## Projects\n",
           [i \in 1..Len(d.projects) |->
              ProjectEntryLines(SortByOrder(d.projects)[i])]),
    "\n")

(***************************************************************************)
(* Specification SpecRound: a parsed resume is written back as markdown by *)
(* generateMarkdown and the markdown is parsed again                       *)
(***************************************************************************)
InitRound ==
  /\ pc = "start"
  /\ mdText \in Markdowns
  /\ resume = <<>>
  /\ generated = ""
  /\ reparsed = <<>>
  /\ IdleExcept("round")

GenerateMarkdownCall ==
  /\ pc = "done"
  /\ pc' = "generated"
  /\ generated' = generateMarkdown(resume)
  /\ UNCHANGED <<mdText, resume, reparsed>>
  /\ UnchangedExcept("round")

ReparseCall ==
  /\ pc = "generated"
  /\ pc' = "reparsed"
  /\ reparsed' = buildParsedResume(generated)
  /\ UNCHANGED <<mdText, resume, generated>>
  /\ UnchangedExcept("round")

NextRound == BuildParsedResumeCall \/ GenerateMarkdownCall \/ ReparseCall
SpecRound == InitRound /\ [][NextRound]_vars

(***************************************************************************)
(* Claims about the round trip (SpecRound)                                 *)
(***************************************************************************)
ExperienceFields(list) ==
  [i \in 1..Len(list) |->
     <<list[i].title, list[i].company, list[i].location, list[i].startDate,
       list[i].endDate, list[i].isCurrent, list[i].description>>]
EducationFields(list) ==
  [i \in 1..Len(list) |->
     <<list[i].institution, list[i].degree, list[i].field, list[i].gpa,
       list[i].startDate, list[i].endDate>>]
SkillFields(list) ==
  [i \in 1..Len(list) |-> <<list[i].name, list[i].category>>]
ProjectFields(list) ==
  [i \in 1..Len(list) |->
     <<list[i].name, list[i].url, list[i].startDate, list[i].endDate,
       list[i].technologies, list[i].description>>]

\* C11: when the markdown that generateMarkdown writes from a parsed resume
\* is parsed again, the experiences, education, skills and projects read
\* back have the same fields, in the same order, as those written.
C11_RoundTripStable ==
  pc = "reparsed" =>
    /\ ExperienceFields(reparsed.experiences) = ExperienceFields(resume.experiences)
    /\ EducationFields(reparsed.education) = EducationFields(resume.education)
    /\ SkillFields(reparsed.skills) = SkillFields(resume.skills)
    /\ ProjectFields(reparsed.projects) = ProjectFields(resume.projects)

(***************************************************************************)
(* Specification SpecHeaderLine: parseExperienceHeader applied to a header *)
(* of one to MaxParts parts of any kind, in any order                      *)
(***************************************************************************)
MaxParts == 3
\* the parts a header is written from, each with what it is: a date range
\* that ends with Present/Current/Now ("current"), a date range that ends
\* with a date ("closed"), a job title, or something else
PartPool ==
  <<<<"Jan 2021 - Present", "current">>, <<"3/2018~Now", "current">>,
    <<"2018 - 2019", "closed">>, <<"Software Engineer", "title">>,
    <<"Acme Corp", "other">>, <<"Acme Corp, Barista", "other">>,
    <<"Acme Corp, Barista, Austin", "other">>>>
PartChoices == UNION {[1..n -> 1..Len(PartPool)] : n \in 1..MaxParts}

InitHeaderLine ==
  /\ pc = "start"
  /\ \E c \in PartChoices :
       /\ headerParts = [k \in 1..Len(c) |-> PartPool[c[k]][1]]
       /\ headerRoles = [k \in 1..Len(c) |-> PartPool[c[k]][2]]
  /\ expOut = <<>>
  /\ IdleExcept("header")

SpecHeaderLine == InitHeaderLine /\ [][NextHeader]_vars

(***************************************************************************)
(* Claims about parseExperienceHeader (SpecHeaderLine)                     *)
(***************************************************************************)
\* the header says that the position is current: some date range of it ends
\* with Present, Current or Now
SaidCurrent == \E k \in 1..Len(headerRoles) : headerRoles[k] = "current"

\* C12: for a header of any number of parts in any order, isCurrent is true
\* if and only if the date range was given as ending with Present/Current/Now,
\* and isCurrent = true implies endDate = null.
C12_CurrentIffPresent ==
  pc = "done" =>
    /\ expOut.isCurrent <=> SaidCurrent
    /\ expOut.isCurrent => expOut.endDate = Null

\* the header is one part (no '|') that is neither a date range nor a title
PlainHeader == Len(headerParts) = 1 /\ headerRoles[1] = "other"

\* C20: a header with no '|' that matches neither the date pattern nor a
\* title keyword is split on commas: with a comma, company is the first
\* segment and title the second; with no comma, company is the whole line.
C20_CommaFallback ==
  (pc = "done" /\ PlainHeader) =>
    IF Includes(headerParts[1], ",")
    THEN /\ expOut.company = TrimAll(Split(headerParts[1], {","}))[1]
         /\ expOut.title = TrimAll(Split(headerParts[1], {","}))[2]
    ELSE expOut.company = headerParts[1]

(***************************************************************************)
(* convertToMarkdown and its section formatters (extract-text route)       *)
(***************************************************************************)
\* sectionKeywords, in the order Object.entries lists them
sectionKeywords ==
  <<<<"personal information", "Personal Information">>,
    <<"contact information", "Personal Information">>,
    <<"contact details", "Personal Information">>,
    <<"summary", "Summary">>, <<"objective", "Summary">>, <<"about", "Summary">>,
    <<"self description", "Summary">>, <<"profile", "Summary">>,
    <<"education", "Education">>, <<"academic", "Education">>,
    <<"degree", "Education">>,
    <<"experience", "Experience">>, <<"work experience", "Experience">>,
    <<"employment", "Experience">>, <<"professional", "Experience">>,
    <<"skills", "Skills">>, <<"technical skills", "Skills">>,
    <<"competencies", "Skills">>,
    <<"projects", "Projects">>, <<"portfolio", "Projects">>,
    <<"certifications", "Certifications">>, <<"certificates", "Certifications">>,
    <<"licenses", "Certifications">>>>

\* text.split("\n").filter(line => line.trim())
NonEmptyLines(text) ==
  LET Kept(lines) == KeepLines(lines, {i \in 1..Len(lines) : Trim(lines[i]) # ""})
  IN Kept(Split(text, {"\n"}))

RxD3 == RxRep(RxCls(Digit), 3, 3)
\* /\+|(\(\d+\))|(\d{3}-\d{3})/
RxHasPhone ==
  RxAlt(<<RxLit("+"), RxCat(<<RxLit("("), RxPlus(RxCls(Digit)), RxLit(")")>>),
          RxCat(<<RxD3, RxLit("-"), RxD3>>)>>)
\* /[A-Z]{2}(?:\s|,|\s*$)/
RxHasLocation ==
  RxCat(<<RxRep(RxCls(Upper), 2, 2),
          RxAlt(<<RxCls(SpaceCh), RxLit(","),
                  RxCat(<<RxStar(RxCls(SpaceCh)), RxEol>>)>>)>>)
linkWords == {"http", "linkedin", "github", "portfolio", "www"}

\* hasEmail || hasPhone || hasLink || hasLocation
IsContactLine(line) ==
  \/ Includes(line, "@")
  \/ Test(RxHasPhone, line)
  \/ TestAnyI(linkWords, line)
  \/ Test(RxHasLocation, line)

\* how many lines from the top the contact scan looks at
ContactScanLimit == 5

RECURSIVE ContactScan(_, _, _)
\* the first loop, at line i (from 1); lineIndex counts the lines consumed
ContactScan(st, lines, i) ==
  IF i > Len(lines) \/ i > ContactScanLimit THEN st
  ELSE IF IsContactLine(lines[i])
  THEN ContactScan([personalInfoLines |-> Append(st.personalInfoLines, lines[i]),
                    lineIndex |-> i], lines, i + 1)
  ELSE IF Len(st.personalInfoLines) > 0 THEN st
  ELSE ContactScan(st, lines, i + 1)

\* the index in sectionKeywords of the first keyword that trimmedLine equals,
\* starts with (before a space) or ends with (after a space); 0 for none
TitleIndex(trimmedLine) ==
  LET First(hits) == IF hits = {} THEN 0 ELSE MinOf(hits)
  IN First({k \in 1..Len(sectionKeywords) :
              \/ trimmedLine = sectionKeywords[k][1]
              \/ StartsWith(trimmedLine, sectionKeywords[k][1] \o " ")
              \/ EndsWith(trimmedLine, " " \o sectionKeywords[k][1])})

\* if (currentSection && currentSection.content.length > 0) sections.push(...)
CloseSection(st) ==
  IF Len(st.current) > 0 /\ Len(st.current[1].content) > 0
  THEN Append(st.sections, st.current[1])
  ELSE st.sections

PlaceContent_AlwaysSummary(st, line) ==
  IF Len(st.current) > 0
  THEN [st EXCEPT !.current[1].content = Append(@, line)]
  ELSE [st EXCEPT !.current = <<[title |-> "Summary", content |-> <<line>>]>>]

\* the branch of a content line; st.current is <<currentSection>> or <<>>
PlaceContent(st, line) ==
  IF Len(st.current) > 0
  THEN [st EXCEPT !.current[1].content = Append(@, line)]
  ELSE IF st.foundAnySection
  THEN [st EXCEPT !.unrecognized = Append(@, line)]
  ELSE [st EXCEPT !.current = <<[title |-> "Summary", content |-> <<line>>]>>]

\* one pass of the second loop
SegmentLine(st, line) ==
  LET Placed(k) ==
        IF k > 0
        THEN [st EXCEPT !.foundAnySection = TRUE,
                        !.sections = CloseSection(st),
                        !.current = <<[title |-> sectionKeywords[k][2],
                                       content |-> <<>>]>>]
        ELSE PlaceContent(st, line)
  IN Placed(TitleIndex(ToLower(Trim(line))))

RECURSIVE SegmentLoop(_, _, _)
SegmentLoop(st, lines, i) ==
  IF i > Len(lines) THEN st
  ELSE SegmentLoop(SegmentLine(st, lines[i]), lines, i + 1)

\* the sections and the unrecognized lines convertToMarkdown collects
Segments(lines) ==
  LET Closed(st) == [sections |-> CloseSection(st), unrecognized |-> st.unrecognized]
      Scanned(top) ==
        Closed(SegmentLoop(
                 [sections |->
                    IF Len(top.personalInfoLines) > 0
                    THEN <<[title |-> "Personal Information",
                            content |-> top.personalInfoLines]>>
                    ELSE <<>>,
                  current |-> <<>>,
                  foundAnySection |-> Len(top.personalInfoLines) > 0,
                  unrecognized |-> <<>>],
                 lines, top.lineIndex + 1))
  IN Scanned(ContactScan([personalInfoLines |-> <<>>, lineIndex |-> 0], lines, 1))

\* s.split(sep) for a separator string
RECURSIVE SplitOn(_, _)
SplitOn(s, sep) ==
  LET Cut(at) ==
        <<SubSeq(s, 1, at - 1)>> \o SplitOn(SubSeq(s, at + Len(sep), Len(s)), sep)
      Pieces(hits) == IF hits = {} THEN <<s>> ELSE Cut(MinOf(hits))
  IN Pieces({i \in 1..(Len(s) - Len(sep) + 1) : SubSeq(s, i, i + Len(sep) - 1) = sep})

\* s.replace(re, "") for a pattern anchored at the start, without the g flag
RemoveLeading(re, s) ==
  LET Rest(m) == IF m.ok THEN Sub(s, m.end, Len(s) + 1) ELSE s
  IN Rest(Search(re, s))

\* the bullet characters a line can start with
BulletChars == {BulletGlyph, "-", "*"}
jobTitleKeywords ==
  {"engineer", "developer", "manager", "analyst", "consultant", "designer",
   "architect", "lead", "senior", "junior", "intern", "director", "specialist",
   "coordinator", "associate", "officer", "executive", "administrator",
   "supervisor", "assistant", "technician", "scientist", "researcher",
   "programmer"}
dateWords ==
  {"january", "february", "march", "april", "may", "june", "july", "august",
   "september", "october", "november", "december", "jan", "feb", "mar", "apr",
   "jun", "jul", "aug", "sep", "oct", "nov", "dec", EnDash, "-", "to", "through"}
companyWords == {"inc", "ltd", "corp", "llc", "gmbh", "ag", "co.", "company", "startup"}

\* the header line must have between these many characters
MinHeaderLength == 15
MaxHeaderLength == 200

\* (part.match(/\b[A-Z][a-zA-Z]*\b/g) || []).length: the words (runs of \w
\* characters) of part that start with a capital and hold letters only
capitalWords(part) ==
  LET IsWordStart(i) == i = 1 \/ Char(part, i - 1) \notin WordCh
      LettersFrom(i) == RunLength(RxCls(Upper \cup Lower), part, i, -1)
      EndsWord(j) == j > Len(part) \/ Char(part, j) \notin WordCh
  IN Cardinality({i \in 1..Len(part) :
                    /\ Char(part, i) \in Upper
                    /\ IsWordStart(i)
                    /\ EndsWord(i + LettersFrom(i))})

isExperienceHeaderLine(line) ==
  LET Among(parts) ==
        /\ Len(parts) >= 2
        /\ \E k \in 1..Len(parts) : TestAnyI(jobTitleKeywords, parts[k])
        /\ \E k \in 1..Len(parts) :
             capitalWords(parts[k]) >= 2 \/ TestAnyI(companyWords, parts[k])
        /\ \E k \in 1..Len(parts) :
             Test(RxD4, parts[k]) \/ TestAnyI(dateWords, parts[k])
      IsHeader(trimmed) ==
        /\ \A b \in BulletChars : ~StartsWith(trimmed, b)
        /\ Len(trimmed) <= MaxHeaderLength
        /\ Len(trimmed) >= MinHeaderLength
        /\ Includes(trimmed, "|")
        /\ Among(TrimAll(Split(trimmed, {"|"})))
  IN IsHeader(Trim(line))

\* one pass of the loop of formatExperienceSection; st.job is <<currentJob>>
\* or <<>>
ExperienceJobLine(st, line) ==
  IF isExperienceHeaderLine(line)
  THEN [jobs |-> IF Len(st.job) > 0 /\ Len(st.job[1].details) > 0
                 THEN Append(st.jobs, st.job[1]) ELSE st.jobs,
        job |-> <<[header |-> line, details |-> <<>>]>>]
  ELSE IF Len(st.job) > 0
  THEN [st EXCEPT !.job[1].details = Append(@, line)]
  ELSE st

RECURSIVE ExperienceJobs(_, _, _)
ExperienceJobs(st, lines, i) ==
  IF i > Len(lines)
  THEN IF Len(st.job) > 0 /\ Len(st.job[1].details) > 0
       THEN Append(st.jobs, st.job[1]) ELSE st.jobs
  ELSE ExperienceJobs(ExperienceJobLine(st, lines[i]), lines, i + 1)

\* /^\s*[\-<bullet glyphs>\*]+\s*/
RxLeadingBullets ==
  RxCat(<<RxBol, RxStar(RxCls(SpaceCh)), RxPlus(RxCls(BulletChars)),
          RxStar(RxCls(SpaceCh))>>)

RECURSIVE BulletPointLines(_)
\* `- ${cleanedPoint}\n` for every bullet point that is not empty once cleaned
BulletPointLines(bulletPoints) ==
  IF Len(bulletPoints) = 0 THEN ""
  ELSE LET Written(cleanedPoint) ==
             IF cleanedPoint = "" THEN "" ELSE "- " \o cleanedPoint \o "\n"
           Cleaned(bulletPoint) ==
             IF bulletPoint = "" THEN ""
             ELSE Written(Trim(RemoveLeading(RxLeadingBullets, bulletPoint)))
       IN Cleaned(Trim(Head(bulletPoints))) \o BulletPointLines(Tail(bulletPoints))

RECURSIVE JobsMarkdown(_)
JobsMarkdown(jobs) ==
  IF Len(jobs) = 0 THEN ""
  ELSE "### " \o Head(jobs).header \o "\n\n"
         \o BulletPointLines(SplitOn(Join(Head(jobs).details, "\n"), "[BULLET]"))
         \o "\n" \o JobsMarkdown(Tail(jobs))

formatExperienceSection(lines) ==
  Trim(JobsMarkdown(ExperienceJobs([jobs |-> <<>>, job |-> <<>>], lines, 1)))

coreTechiKeywords == techKeywords
naturalLanguageWords ==
  {"the", "and", "or", "but", "for", "with", "from", "about", "which", "their",
   "there", "this", "that"}
\* /^[A-Z]{2,}$/ and /^[A-Z][A-Z0-9]{1,}$/
RxAllCaps == RxCat(<<RxBol, RxRep(RxCls(Upper), 2, -1), RxEol>>)
RxCapsDigits ==
  RxCat(<<RxBol, RxCls(Upper), RxRep(RxCls(Upper \cup Digit), 1, -1), RxEol>>)

isLikelyTechnicalSkill(skill) ==
  \/ \E i \in 1..Len(skill) : Char(skill, i) \in {"+", "#", "-", "/", "."}
  \/ Test(RxAllCaps, skill) \/ Test(RxCapsDigits, skill)
  \/ (\E i \in 1..Len(skill) : Char(skill, i) \in Digit) /\ Len(skill) <= 20
  \/ /\ \A i \in 1..Len(skill) : Char(skill, i) \notin SpaceCh
     /\ Len(skill) >= 3 /\ Len(skill) <= 30
     /\ ToLower(skill) \notin naturalLanguageWords

\* /^[<bullet glyph>\-\*\s]+/
RxSkillBullets == RxCat(<<RxBol, RxPlus(RxCls(BulletChars \cup SpaceCh))>>)

\* the list a skill line is pushed to: "technical" | "soft" | "unclassified"
SkillBucket(skill) ==
  IF TestAnyI(softSkillsKeywords, skill) THEN "soft"
  ELSE IF TestAnyI(coreTechiKeywords, skill) THEN "technical"
  ELSE IF isLikelyTechnicalSkill(skill) THEN "technical"
  ELSE "unclassified"

RECURSIVE SkillItems(_, _)
\* `- ${skill}\n` for the skills of one bucket, in the order of the lines
SkillItems(skills, bucket) ==
  IF Len(skills) = 0 THEN ""
  ELSE (IF SkillBucket(Head(skills)) = bucket THEN "- " \o Head(skills) \o "\n"
        ELSE "")
         \o SkillItems(Tail(skills), bucket)

formatSkillsSection(lines) ==
  LET Group(heading, itemLines) ==
        IF itemLines = "" THEN "" ELSE heading \o "\n\n" \o itemLines \o "\n"
      Grouped(skills) ==
        Trim(Group("### Technical Skills", SkillItems(skills, "technical"))
               \o Group("### Soft Skills", SkillItems(skills, "soft"))
               \o Group("### Other Skills", SkillItems(skills, "unclassified")))
      Cleaned(kept) ==
        Grouped([k \in 1..Len(kept) |->
                   Trim(RemoveLeading(RxSkillBullets, Trim(kept[k])))])
  IN Cleaned(KeepLines(lines, {i \in 1..Len(lines) : Trim(lines[i]) # ""}))

RECURSIVE SectionsMarkdown(_)
SectionsMarkdown(sections) ==
  IF Len(sections) = 0 THEN ""
  ELSE "## " \o Head(sections).title \o "\n\n"
         \o (IF Head(sections).title = "Experience"
             THEN formatExperienceSection(Head(sections).content)
             ELSE IF Head(sections).title = "Skills"
             THEN formatSkillsSection(Head(sections).content)
             ELSE Trim(Join(Head(sections).content, "\n")))
         \o "\n\n" \o SectionsMarkdown(Tail(sections))

convertToMarkdown(text) ==
  LET Rendered(seg) ==
        Trim(SectionsMarkdown(seg.sections)
               \o (IF Len(seg.unrecognized) > 0
                   THEN "## Unrecognized Content\n\n"
                          \o Join(seg.unrecognized, "\n") \o "\n\n"
                   ELSE ""))
  IN Rendered(Segments(NonEmptyLines(text)))

(***************************************************************************)
(* save-resume/route.ts: the POST handler                                  *)
(***************************************************************************)
\* the object downloadFromS3 finds nothing under
NoSuchKey == "<NoSuchKey>"
ErrKeyRequired == "S3 Key is required"
ErrNoSuchFile == "file does not exist"
ErrUnsupported == "unsupported file format, only PDF and DOCX"

\* s3Key.toLowerCase().split(".").pop()
Ext(key) ==
  LET Pop(parts) == parts[Len(parts)] IN Pop(SplitOn(ToLower(key), "."))

\* the text of the file: extractPdfText ends with convertToMarkdown,
\* extractDocxText returns the raw text of the document
ExtractedText(ext, file) ==
  IF ext = "pdf" THEN convertToMarkdown(file) ELSE file

\* the inner try/catch: structured stays null when buildParsedResume throws
Structured(built) == IF "thrown" \in DOMAIN built THEN <<>> ELSE <<built>>

Answer(text) ==
  [ok |-> TRUE, status |-> 200, text |-> text,
   structured |-> Structured(buildParsedResume(text))]

Failure(status, error) == [ok |-> FALSE, status |-> status, error |-> error]

POST(key, file) ==
  IF key = "" THEN Failure(400, ErrKeyRequired)
  ELSE IF file = NoSuchKey THEN Failure(500, ErrNoSuchFile)
  ELSE IF Ext(key) \notin {"pdf", "docx"} THEN Failure(400, ErrUnsupported)
  ELSE Answer(ExtractedText(Ext(key), file))

(***************************************************************************)
(* Specification SpecPost: one request to the POST handler, for a key and  *)
(* the text content of the file stored under it                            *)
(***************************************************************************)
S3Keys ==
  {"", "resumes/a.pdf", "resumes/b.PDF", "resumes/a.docx", "resumes/b.Docx",
   "resumes/a.txt", "resumes/a.pdf.bak", "resumes/noext"}

FileTexts ==
  {NoSuchKey,
   "",
   "John Smith\njohn@x.io | Austin, TX\nSeasoned builder\nExperience\nSoftware Engineer | Acme Corp | Jan 2021 - Present\n[BULLET] Built a tool\nSkills\nPython, AWS\n",
   "Experience\nSoftware Engineer | Acme Corp | Jan 2021 - Present\n[BULLET] Built a tool\n",
   "Skills\nPython and Docker\nLeadership\n",
   "Seasoned builder of tools\nEducation\nMIT | B.S. in Computer Science | 2015 - 2019\n",
   "john@x.io\nReferences on request\n",
   "## Experience\n### Software Engineer | Acme Corp | Jan 2021 - Present\n- Built a tool\n",
   "## toString\nnotes\n",
   "## Constructor\nnotes\n",
   "Projects\nResume Tool | https://x.io/r | 2020 - Ongoing\n",
   "Summary\nI build things\n",
   "Work Experience\nBarista | Bean House | 3/2018 - 9/2018\n",
   "valueOf\nnotes\n"}

InitPost ==
  /\ pc = "start"
  /\ s3Key \in S3Keys
  /\ fileText \in FileTexts
  /\ response = <<>>
  /\ IdleExcept("post")

PostCall ==
  /\ pc = "start"
  /\ pc' = "done"
  /\ response' = POST(s3Key, fileText)
  /\ UNCHANGED <<s3Key, fileText>>
  /\ UnchangedExcept("post")

NextPost == PostCall
SpecPost == InitPost /\ [][NextPost]_vars

(***************************************************************************)
(* Claims about the POST handler (SpecPost)                                *)
(***************************************************************************)
Responded == pc = "done" /\ response # <<>>

\* C13: a response of the POST handler is either a complete success (ok,
\* with the text, a structured resume and its warnings) or an explicit
\* error (not ok, with a message); ok is never sent with a null structured
C13_CompleteOrError ==
  Responded =>
    IF response.ok
    THEN /\ Len(response.structured) = 1
         /\ "warnings" \in DOMAIN response.structured[1]
    ELSE response.error # ""

(***************************************************************************)
(* Specification SpecSubheading: buildParsedResume applied to a document   *)
(* of one section made of one or two '### ' sub-headings with a bullet     *)
(***************************************************************************)
MaxSubheadings == 2
SubheadingSections == <<"Experience", "Education", "Projects">>
SubheadingPool ==
  <<<<"Software Engineer | Acme Corp | Jan 2021 - Present",
      "Intern | 3/2018 - 9/2018", "Gamma Inc", "2018 - 2019">>,
    <<"MIT | B.S. in Computer Science | 2015 - 2019",
      "Bachelor of Science | 2015 - 2019", "Night classes", "2015 - 2019">>,
    <<"Resume Tool | https://x.io/r | 2020 - Ongoing",
      "https://x.io/r | 2020 - 2021", "Side project", "2018 - 2019">>>>

SubheadingEntry(header) == "### " \o header \o "\n- Did the work\n"

RECURSIVE SubheadingEntries(_, _)
SubheadingEntries(pool, hs) ==
  IF Len(hs) = 0 THEN ""
  ELSE SubheadingEntry(pool[Head(hs)]) \o SubheadingEntries(pool, Tail(hs))

SubheadingDocs ==
  {"## " \o SubheadingSections[s] \o "\n"
     \o SubheadingEntries(SubheadingPool[s], hs) :
   s \in 1..3,
   hs \in UNION {[1..n -> 1..4] : n \in 1..MaxSubheadings}}

InitSubheading ==
  /\ pc = "start"
  /\ mdText \in SubheadingDocs
  /\ resume = <<>>
  /\ IdleExcept("parse")

NextSubheading == BuildParsedResumeCall
SpecSubheading == InitSubheading /\ [][NextSubheading]_vars

(***************************************************************************)
(* Claims about sub-headings (SpecSubheading)                              *)
(***************************************************************************)
\* the number of '### ' sub-heading lines of a section
Subheadings(md, name) ==
  Cardinality({i \in 1..Len(SectionLines(extractSections(md), name)) :
                 Test(RxH3, Trim(SectionLines(extractSections(md), name)[i]))})

\* C14: every '### ' sub-heading line of an Experience, Education or
\* Projects section yields exactly one record of the corresponding list, so
\* a section of k sub-headings yields a list of length k
C14_OneRecordPerSubheading ==
  pc = "done" =>
    /\ Len(resume.experiences) = Subheadings(mdText, "Experience")
    /\ Len(resume.education) = Subheadings(mdText, "Education")
    /\ Len(resume.projects) = Subheadings(mdText, "Projects")

CategoryWarnings == {WarnPersonalInfo, WarnExperience, WarnEducation, WarnSkills}

\* the PDF path, answered with a structured resume
PdfAnswered ==
  Responded /\ response.ok /\ Ext(s3Key) = "pdf" /\ Len(response.structured) = 1

\* C15: whenever segmentation puts at least one line into the Unrecognized
\* bucket, the ParsedResume built from the emitted markdown carries a
\* document-level warning that reports the unrecognized content
C15_UnrecognizedWarned ==
  (PdfAnswered /\ Len(Segments(NonEmptyLines(fileText)).unrecognized) > 0) =>
    \E i \in 1..Len(response.structured[1].warnings) :
       response.structured[1].warnings[i] \notin CategoryWarnings

\* line i of lines is a bare section keyword, followed by a content line
BareHeadingAt(lines, i) ==
  /\ i < Len(lines)
  /\ \E k \in 1..Len(sectionKeywords) : ToLower(Trim(lines[i])) = sectionKeywords[k][1]
  /\ TitleIndex(ToLower(Trim(lines[i + 1]))) = 0

\* the section of the parser that the keyword of a bare heading line names
CanonicalSection(line) ==
  LET Named(title) == SECTION_KEYWORDS(ToLower(title), title)
  IN Named(sectionKeywords[TitleIndex(ToLower(Trim(line)))][2])

\* the line reaches the field extractor of the section
ReachesExtractor(md, name, line) ==
  \E j \in 1..Len(SectionLines(extractSections(md), name)) :
     Includes(SectionLines(extractSections(md), name)[j], Trim(line))

\* C18: on the DOCX path as on the PDF path, a bare line that equals a
\* section keyword opens the canonical section, so the line below it
\* reaches that section's field extractor when the ParsedResume is built
C18_BareHeadingOpensSection ==
  (Responded /\ response.ok /\ Len(response.structured) = 1) =>
    \A i \in 1..Len(NonEmptyLines(fileText)) :
       BareHeadingAt(NonEmptyLines(fileText), i) =>
         ReachesExtractor(response.text,
                          CanonicalSection(NonEmptyLines(fileText)[i]),
                          NonEmptyLines(fileText)[i + 1])

(***************************************************************************)
(* Specification SpecSegment: convertToMarkdown applied to the text of a   *)
(* page: a name, a contact line, leading lines and one section, each       *)
(* present or not                                                          *)
(***************************************************************************)
NameLines == {"", "John Smith\n"}
ContactLines == {"", "john@x.io | 555-123-4567\n"}
LeadLines == {"", "Seasoned builder\n", "Seasoned builder\nTen years of work\n"}
BodyLines ==
  {"",
   "Experience\nSoftware Engineer | Acme Corp | Jan 2021 - Present\n[BULLET] Built a tool\n",
   "Experience\nAcme history\nSoftware Engineer | Acme Corp | Jan 2021 - Present\n",
   "Skills\nPython and Docker\nLeadership\n",
   "Education\nState University\nHobbies and more\n"}

PageTexts ==
  {name \o contact \o lead \o body :
     name \in NameLines, contact \in ContactLines, lead \in LeadLines,
     body \in BodyLines}

InitSegment ==
  /\ pc = "start"
  /\ rawText \in PageTexts
  /\ segmented = ""
  /\ IdleExcept("segment")

ConvertToMarkdownCall ==
  /\ pc = "start"
  /\ pc' = "done"
  /\ segmented' = convertToMarkdown(rawText)
  /\ UNCHANGED rawText
  /\ UnchangedExcept("segment")

NextSegment == ConvertToMarkdownCall
SpecSegment == InitSegment /\ [][NextSegment]_vars

(***************************************************************************)
(* Claims about convertToMarkdown (SpecSegment)                            *)
(***************************************************************************)
\* the text of a line without its bullet tag or bullet character
Content(line) ==
  LET Bare(t) ==
        Trim(RemoveLeading(RxLeadingBullets,
               IF StartsWith(t, "[BULLET]") THEN Sub(t, 9, Len(t) + 1) ELSE t))
  IN Bare(Trim(line))

\* C16: every non-empty input line of convertToMarkdown that is not itself
\* a recognized section heading appears in the emitted markdown
C16_ContentPreserved ==
  pc = "done" =>
    \A i \in 1..Len(NonEmptyLines(rawText)) :
       TitleIndex(ToLower(Trim(NonEmptyLines(rawText)[i]))) = 0
         => Includes(segmented, Content(NonEmptyLines(rawText)[i]))

\* the contact block found at the top of the page
TopOf(text) ==
  ContactScan([personalInfoLines |-> <<>>, lineIndex |-> 0], NonEmptyLines(text), 1)

\* the indexes of the lines the main loop reads before the first keyword
\* heading
LeadIndexes(text) ==
  {i \in (TopOf(text).lineIndex + 1)..Len(NonEmptyLines(text)) :
     \A j \in (TopOf(text).lineIndex + 1)..i :
        TitleIndex(ToLower(Trim(NonEmptyLines(text)[j]))) = 0}

\* the indexes of the lines above the end of the contact block that are not
\* contact lines
SkippedIndexes(text) ==
  {i \in 1..TopOf(text).lineIndex : ~IsContactLine(NonEmptyLines(text)[i])}

\* the line is one of the lines of the section of the markdown
InSection(md, name, line) ==
  \E j \in 1..Len(SectionLines(extractSections(md), name)) :
     Trim(SectionLines(extractSections(md), name)[j]) = Trim(line)

ContactFound(text) == Len(TopOf(text).personalInfoLines) > 0

MaxFragments == 3
FragmentPool == {"-", "1.", "Built"}
Gaps == {0, 2 * GapThreshold}
LineHeight == 14
TopOfPage == 700

RECURSIVE Positioned(_, _, _, _)
\* the fragments strs placed one after another: fragment k begins gaps[k]
\* after the estimated end of fragment k - 1, drops[k] lines below it
Positioned(strs, gaps, drops, k) ==
  IF k = 0 THEN <<>>
  ELSE LET Placed(before) ==
             Append(before,
                    [str |-> strs[k],
                     x |-> IF k = 1 THEN gaps[k]
                           ELSE before[k - 1].x + Len(before[k - 1].str) * CharWidth
                                  + gaps[k],
                     y |-> IF k = 1 THEN TopOfPage
                           ELSE before[k - 1].y - drops[k] * LineHeight])
       IN Placed(Positioned(strs, gaps, drops, k - 1))

InitBullets ==
  /\ pc = "start"
  /\ \E strs \in [1..MaxFragments -> FragmentPool],
        gaps \in [1..MaxFragments -> Gaps],
        drops \in [1..MaxFragments -> {0, 1}] :
       /\ gaps[1] = 0 /\ drops[1] = 0
       /\ items = Positioned(strs, gaps, drops, MaxFragments)
  /\ itemIndex = 1
  /\ pageText = ""
  /\ lastX = 0
  /\ lastY = 0
  /\ fullText = ""
  /\ IdleExcept("layout")

NextBullets == PlaceItem \/ EndPage
SpecBullets == InitBullets /\ [][NextBullets]_vars

(***************************************************************************)
(* Claims about bullet markers (SpecBullets)                               *)
(***************************************************************************)
\* the positions of text at which the bullet tag begins
TagPositions(text) ==
  {p \in 1..Len(text) : StartsWith(Sub(text, p, Len(text) + 1), BulletTag)}

\* the bullet markers among the fragments placed so far
PlacedMarkers ==
  {k \in 1..(itemIndex - 1) : Test(RxIsBullet, items[k].str)}

\* C19: after any sequence of fragments, every '[BULLET] ' tag of the page
\* text is at its very start or right after a newline, the text of a
\* bullet-marker fragment is not in the page text, and no space is put in
\* before a bullet marker (a space before the newline of a tag is the last
\* character of the tag before it)
C19_BulletTagOnOwnLine ==
  /\ \A p \in TagPositions(pageText) : p = 1 \/ Char(pageText, p - 1) = "\n"
  /\ \A k \in PlacedMarkers : ~Includes(pageText, items[k].str)
  /\ \A p \in TagPositions(pageText) :
        (p > 2 /\ Char(pageText, p - 2) = " ")
          => EndsWith(Sub(pageText, 1, p - 1), BulletTag)
  /\ Cardinality(TagPositions(pageText)) = Cardinality(PlacedMarkers)

\* C19 witness: a bullet marker was placed after a word of the same line,
\* a gap away from it
C19_Witness_MarkerAfterWord ==
  /\ itemIndex = 3
  /\ ~Test(RxIsBullet, items[1].str)
  /\ Test(RxIsBullet, items[2].str)
  /\ items[2].y = items[1].y
  /\ items[2].x - (items[1].x + Len(items[1].str) * CharWidth) > GapThreshold
  /\ pageText = items[1].str \o "\n" \o BulletTag

(***************************************************************************)
(* Specification SpecScore: parseExperienceHeader applied to a header of   *)
(* one to four parts, each a date range, a title, a name or empty          *)
(***************************************************************************)
MaxScoreParts == 4
ScorePool ==
  <<<<"Jan 2021 - Present", "date">>, <<"Software Engineer", "title">>,
    <<"Team Lead", "title">>, <<"Acme Corp", "name">>, <<"", "empty">>>>

InitScore ==
  /\ pc = "start"
  /\ \E c \in UNION {[1..n -> 1..Len(ScorePool)] : n \in 1..MaxScoreParts} :
       /\ headerParts = [k \in 1..Len(c) |-> ScorePool[c[k]][1]]
       /\ headerRoles = [k \in 1..Len(c) |-> ScorePool[c[k]][2]]
  /\ expOut = <<>>
  /\ IdleExcept("header")

SpecScore == InitScore /\ [][NextHeader]_vars

(***************************************************************************)
(* Claims about the confidence of a header (SpecScore)                     *)
(***************************************************************************)
\* the parts that hold a date range
DatedParts == {k \in 1..Len(headerRoles) : headerRoles[k] = "date"}

\* the part that becomes the title: the first part with a title keyword
TitledParts ==
  {k \in 1..Len(headerRoles) :
     /\ headerRoles[k] = "title"
     /\ \A j \in 1..(k - 1) : headerRoles[j] # "title"}

\* the parts stored as company: the undated, untitled parts up to the
\* first one that is not empty
CompanyParts ==
  {k \in 1..Len(headerRoles) :
     /\ k \notin DatedParts \cup TitledParts
     /\ \A j \in 1..(k - 1) :
           j \in DatedParts \cup TitledParts \/ headerRoles[j] = "empty"}

Indicator(set) == IF set = {} THEN 0 ELSE 1
AtMost100(n) == IF n > 100 THEN 100 ELSE n

\* C21 (as stated): confidence = min(100, 50 + 15*d + 15*t + 10*c) with d, t
\* and c each 0 or 1: every rule adds its delta at most once per header
C21_AsStated ==
  pc = "done" =>
    expOut.confidence
      = AtMost100(50 + 15 * Indicator(DatedParts) + 15 * Indicator(TitledParts)
                     + 10 * Indicator(CompanyParts))

\* C21 (amended): confidence = min(100, 50 + 15*D + 15*t + 10*C), where D
\* counts the parts with a date range, t is 1 when a title was set by
\* keyword, and C counts the parts stored as company (the first such part
\* that is not empty and every empty one before it)
C21_ConfidenceIsFold ==
  pc = "done" =>
    expOut.confidence
      = AtMost100(50 + 15 * Cardinality(DatedParts) + 15 * Cardinality(TitledParts)
                     + 10 * Cardinality(CompanyParts))

\* C21 witness: four date ranges were parsed and the sum was clamped
C21_Witness_Clamped ==
  /\ pc = "done"
  /\ Cardinality(DatedParts) = 4
  /\ expOut.confidence = 100

(***************************************************************************)
(* Claims about parsePersonalInfo (SpecParse)                              *)
(***************************************************************************)
\* the fields of the five that were found
FoundFields(info) ==
  {f \in {"email", "phone", "linkedIn", "github", "name"} : ~Falsy(info[f])}

\* C22: parsePersonalInfo returns confidence = min(100, 50 + 10*k), k the
\* number of the fields email, phone, linkedIn, github and name that were
\* found; location and portfolio do not change the confidence
C22_TenPerField ==
  (pc = "done" /\ Len(resume.personalInfo) = 1) =>
    resume.personalInfo[1].confidence
      = IF 50 + 10 * Cardinality(FoundFields(resume.personalInfo[1])) > 100
        THEN 100
        ELSE 50 + 10 * Cardinality(FoundFields(resume.personalInfo[1]))

(***************************************************************************)
(* Specification SpecPlain: buildParsedResume applied to a document of one *)
(* section without '###' markers: one or two header lines with a bullet    *)
(***************************************************************************)
PlainEntry(header) == header \o "\n- Did the work\n"

RECURSIVE PlainEntries(_, _)
PlainEntries(pool, hs) ==
  IF Len(hs) = 0 THEN ""
  ELSE PlainEntry(pool[Head(hs)]) \o PlainEntries(pool, Tail(hs))

PlainDocs ==
  {"## " \o SubheadingSections[s] \o "\n" \o PlainEntries(SubheadingPool[s], hs) :
   s \in 1..3,
   hs \in UNION {[1..n -> 1..4] : n \in 1..MaxSubheadings}}

InitPlain ==
  /\ pc = "start"
  /\ mdText \in PlainDocs
  /\ resume = <<>>
  /\ IdleExcept("parse")

NextPlain == BuildParsedResumeCall
SpecPlain == InitPlain /\ [][NextPlain]_vars

(***************************************************************************)
(* Claims about sections without sub-heading markers (SpecPlain)           *)
(***************************************************************************)
\* the line parses as a record header of the section
ParsesAsHeader(name, line) ==
  IF name = "Experience"
  THEN parseExperienceHeader(line).company # "" \/ parseExperienceHeader(line).title # ""
  ELSE IF name = "Education"
  THEN ~Falsy(parseEducationHeader(line).institution)
         \/ ~Falsy(parseEducationHeader(line).degree)
  ELSE ~Falsy(parseProjectHeader(line).name)

\* the number of non-bullet lines of the section that parse as a header
HeaderLines(md, name) ==
  Cardinality({i \in 1..Len(SectionLines(extractSections(md), name)) :
                 /\ Trim(SectionLines(extractSections(md), name)[i]) # ""
                 /\ ~Test(RxBullet, Trim(SectionLines(extractSections(md), name)[i]))
                 /\ ParsesAsHeader(name, Trim(SectionLines(extractSections(md), name)[i]))})

\* C23: in a section without '###' markers every non-bullet line that
\* parses as a record header opens a new record, so a section with k such
\* lines yields k records
C23_OneRecordPerHeaderLine ==
  pc = "done" =>
    /\ Len(resume.experiences) = HeaderLines(mdText, "Experience")
    /\ Len(resume.education) = HeaderLines(mdText, "Education")
    /\ Len(resume.projects) = HeaderLines(mdText, "Projects")

(***************************************************************************)
(* Specification SpecBulletList: buildParsedResume applied to a Projects   *)
(* section of one project followed by one to three bullets                 *)
(***************************************************************************)
MaxBullets == 3
BulletPool ==
  {"Tech: React, Node", "Built with: Rust", "Stack - Go",
   "Technical lead of the team", "Built it", "Shipped v2"}

RECURSIVE BulletText(_)
BulletText(bullets) ==
  IF Len(bullets) = 0 THEN ""
  ELSE "- " \o Head(bullets) \o "\n" \o BulletText(Tail(bullets))

BulletDocs ==
  {"## Projects\n### Resume Tool\n" \o BulletText(bs) :
   bs \in UNION {[1..n -> BulletPool] : n \in 1..MaxBullets}}

InitBulletList ==
  /\ pc = "start"
  /\ mdText \in BulletDocs
  /\ resume = <<>>
  /\ IdleExcept("parse")

NextBulletList == BuildParsedResumeCall
SpecBulletList == InitBulletList /\ [][NextBulletList]_vars

(***************************************************************************)
(* Claims about the bullets of a project (SpecBulletList)                  *)
(***************************************************************************)
\* the bullet texts of the document, in order
BulletsOf(md) ==
  LET Texts(lines) ==
        [k \in 1..Len(lines) |-> Sub(lines[k], 3, Len(lines[k]) + 1)]
      IsBulletLine(line) == StartsWith(line, "- ")
  IN Texts(SelectSeq(Split(md, {"\n"}), IsBulletLine))

\* the bullet starts with tech, stack, built with or technologies and has a
\* colon after it
IsTechBullet(bulletText) ==
  /\ \E w \in {"tech", "stack", "built with", "technologies"} :
        StartsWith(ToLower(bulletText), w)
  /\ Includes(bulletText, ":")

IsPlainBullet(bulletText) == ~IsTechBullet(bulletText)

\* C24: every bullet after an open project is accounted for: a tech bullet
\* with a colon sets technologies, every other bullet (one that starts with
\* such a word but has no colon included) is appended to the description
C24_BulletsAccounted ==
  (pc = "done" /\ Len(resume.projects) = 1) =>
    /\ resume.projects[1].description = SelectSeq(BulletsOf(mdText), IsPlainBullet)
    /\ Len(resume.projects[1].technologies) = 1
         <=> \E k \in 1..Len(BulletsOf(mdText)) : IsTechBullet(BulletsOf(mdText)[k])

(***************************************************************************)
(* Specification SpecEduHeader: parseEducationHeader applied to a header   *)
(* of one to three parts, some of which carry a GPA                        *)
(***************************************************************************)
MaxEduParts == 3
EduPartPool ==
  <<<<"GPA: 3.8", "gpa">>, <<"B.S. in Computer Science, GPA 3.8", "gpa">>,
    <<"2015 - 2019, GPA 3.8", "gpa">>, <<"State University (GPA 3.8)", "gpa">>,
    <<"MIT", "plain">>, <<"Master of Arts", "plain">>, <<"2015 - 2019", "plain">>>>

InitEduHeader ==
  /\ pc = "start"
  /\ \E c \in UNION {[1..n -> 1..Len(EduPartPool)] : n \in 1..MaxEduParts} :
       /\ headerParts = [k \in 1..Len(c) |-> EduPartPool[c[k]][1]]
       /\ headerRoles = [k \in 1..Len(c) |-> EduPartPool[c[k]][2]]
  /\ expOut = <<>>
  /\ IdleExcept("header")

ParseEducationHeaderCall ==
  /\ pc = "start"
  /\ pc' = "done"
  /\ expOut' = parseEducationHeader(Join(headerParts, " | "))
  /\ UNCHANGED <<headerParts, headerRoles>>
  /\ UnchangedExcept("header")

NextEduHeader == ParseEducationHeaderCall
SpecEduHeader == InitEduHeader /\ [][NextEduHeader]_vars

(***************************************************************************)
(* Claims about parseEducationHeader (SpecEduHeader)                       *)
(***************************************************************************)
\* C25: parseEducationHeader sets gpa whenever any part of the header holds
\* 'gpa' followed by a number, whatever else the part holds and wherever it
\* stands in the header
C25_GpaFromAnyPart ==
  (pc = "done" /\ \E k \in 1..Len(headerRoles) : headerRoles[k] = "gpa") =>
    expOut.gpa = "3.8"

(***************************************************************************)
(* ExperienceEditor and its DateRangePicker inside ExperienceListEditor.   *)
(* The callbacks of one render close over the data prop of that render;    *)
(* every onChange call goes up to handleStructuredChange, which calls      *)
(* setEditedStructured with a value, so the last call of one event is the  *)
(* state of the next render.                                               *)
(***************************************************************************)
MaxExperiences == 2
PickerDates == {"2019-01", "2020-06"}

\* ExperienceEditor.handleChange: { ...data, [field]: value }
ExperienceChange(exp, field, value) ==
  [f \in DOMAIN exp |-> IF f = field THEN value ELSE exp[f]]

\* ExperienceListEditor.handleChange: data.map((exp) => (exp.id === id ? updated : exp))
ListChange(list, id, updated) ==
  [i \in 1..Len(list) |-> IF list[i].id = id THEN updated ELSE list[i]]

\* DateRangePicker.handleCurrentChange: the onChange calls it makes, in order
CurrentChangeCalls(list, exp, checked) ==
  <<ListChange(list, exp.id, ExperienceChange(exp, "isCurrent", checked))>>
    \o (IF checked
        THEN <<ListChange(list, exp.id, ExperienceChange(exp, "endDate", Null))>>
        ELSE <<>>)

\* setEditedStructured(data), once per call: the last value is rendered
Rendered(calls) == calls[Len(calls)]

InitPicker ==
  /\ pc = "editing"
  /\ editorKind = "experience"
  /\ \E n \in 1..MaxExperiences :
       \E ends \in [1..n -> PickerDates \cup {Null}] :
         data = [i \in 1..n |->
                   [id |-> i, order |-> i - 1, startDate |-> "2019-01",
                    endDate |-> ends[i], isCurrent |-> ends[i] = Null]]
  /\ IdleExcept("edit")

handleCurrentChange ==
  /\ \E index \in 1..Len(data), checked \in BOOLEAN :
       data' = Rendered(CurrentChangeCalls(data, data[index], checked))
  /\ UNCHANGED <<pc, editorKind>>
  /\ UnchangedExcept("edit")

\* onStartDateChange={(date) => handleChange('startDate', date)}
handleStartDateChange ==
  /\ \E index \in 1..Len(data), date \in PickerDates :
       data' = ListChange(data, data[index].id,
                          ExperienceChange(data[index], "startDate", date))
  /\ UNCHANGED <<pc, editorKind>>
  /\ UnchangedExcept("edit")

\* onEndDateChange={(date) => handleChange('endDate', date)}
handleEndDateChange ==
  /\ \E index \in 1..Len(data), date \in PickerDates :
       data' = ListChange(data, data[index].id,
                          ExperienceChange(data[index], "endDate", date))
  /\ UNCHANGED <<pc, editorKind>>
  /\ UnchangedExcept("edit")

NextPicker == handleCurrentChange \/ handleStartDateChange \/ handleEndDateChange
SpecPicker == InitPicker /\ [][NextPicker]_vars

\* C26: checking the 'current position' box of an experience leaves that
\* experience with isCurrent = true and endDate = null: both callbacks of
\* the event take effect.
C26_CheckedIsCurrent ==
  [][\A index \in 1..Len(data) :
       data' = Rendered(CurrentChangeCalls(data, data[index], TRUE))
         => data'[index].isCurrent = TRUE /\ data'[index].endDate = Null]_vars

(***************************************************************************)
(* The resume page (app/resume/[s3Key]/page.tsx): the edited and the saved *)
(* copies of the text and of the structured resume, the view mode and the  *)
(* two save handlers.  handleSaveToS3 awaits its fetch: the call keeps the *)
(* values of the render it was made in, and the page goes on taking edits  *)
(* until the answer arrives.                                               *)
(***************************************************************************)
ViewModes == {"preview", "edit", "raw"}
TextVersions == {"", "text 1", "text 2"}
ResumeVersions == {"resume 1", "resume 2"}

\* the state once extractText has finished, with or without structured data
InitPage ==
  /\ pc = "loaded"
  /\ \E parsed \in ResumeVersions \cup {Null} :
       page = [text |-> "text 1", editedText |-> "text 1",
               structured |-> parsed, editedStructured |-> parsed,
               viewMode |-> "preview", isSaving |-> FALSE,
               hasUnsavedChanges |-> FALSE]
  /\ inFlight = <<>>
  /\ IdleExcept("page")

\* the editor container is rendered in the edit tab when editedStructured is set
handleStructuredChange ==
  /\ page.viewMode = "edit"
  /\ page.editedStructured # Null
  /\ \E value \in ResumeVersions :
       page' = [page EXCEPT !.editedStructured = value, !.hasUnsavedChanges = TRUE]
  /\ UNCHANGED <<pc, inFlight>>
  /\ UnchangedExcept("page")

\* the textarea of the raw tab
handleTextChange ==
  /\ page.viewMode = "raw"
  /\ \E value \in TextVersions :
       page' = [page EXCEPT !.editedText = value, !.hasUnsavedChanges = TRUE]
  /\ UNCHANGED <<pc, inFlight>>
  /\ UnchangedExcept("page")

\* <Tabs onValueChange={(v) => setViewMode(v)}>
setViewMode ==
  /\ \E v \in ViewModes : page' = [page EXCEPT !.viewMode = v]
  /\ UNCHANGED <<pc, inFlight>>
  /\ UnchangedExcept("page")

\* the 'Save Locally' button of the raw tab, disabled while isSaving
handleSaveLocal ==
  /\ page.viewMode = "raw"
  /\ ~page.isSaving
  /\ page' =
       IF page.viewMode = "edit" /\ ~Falsy(page.editedStructured)
       THEN [page EXCEPT !.structured = page.editedStructured,
                         !.hasUnsavedChanges = FALSE]
       ELSE IF page.viewMode = "raw" /\ ~Falsy(page.editedText)
       THEN [page EXCEPT !.text = page.editedText, !.hasUnsavedChanges = FALSE]
       ELSE page
  /\ UNCHANGED <<pc, inFlight>>
  /\ UnchangedExcept("page")

\* what handleSaveToS3 sends, from the values of the render it is called in
SaveRequest(p) ==
  IF p.viewMode = "edit" /\ ~Falsy(p.editedStructured)
  THEN <<[route |-> "save-structured-resume", value |-> p.editedStructured]>>
  ELSE IF ~Falsy(p.editedText)
  THEN <<[route |-> "save-resume", value |-> p.editedText]>>
  ELSE <<>>

\* the save buttons of the edit tab (in the editor container) and of the raw
\* tab, disabled while isSaving; the handler up to its first await
handleSaveToS3 ==
  /\ \/ page.viewMode = "raw"
     \/ page.viewMode = "edit" /\ page.editedStructured # Null
  /\ ~page.isSaving
  /\ ~(Falsy(page.editedStructured) /\ Falsy(page.editedText))
  /\ IF SaveRequest(page) = <<>>
     THEN /\ page' = [page EXCEPT !.hasUnsavedChanges = FALSE]
          /\ UNCHANGED inFlight
     ELSE /\ page' = [page EXCEPT !.isSaving = TRUE]
          /\ inFlight' = SaveRequest(page)
  /\ UNCHANGED pc
  /\ UnchangedExcept("page")

\* result.ok: the handler resumes after the await
SaveSucceeds ==
  /\ inFlight # <<>>
  /\ page' =
       IF inFlight[1].route = "save-structured-resume"
       THEN [page EXCEPT !.structured = inFlight[1].value,
                         !.hasUnsavedChanges = FALSE, !.isSaving = FALSE]
       ELSE [page EXCEPT !.text = inFlight[1].value,
                         !.hasUnsavedChanges = FALSE, !.isSaving = FALSE]
  /\ inFlight' = <<>>
  /\ UNCHANGED pc
  /\ UnchangedExcept("page")

\* !result.ok or a rejected fetch: catch, then finally
SaveFails ==
  /\ inFlight # <<>>
  /\ page' = [page EXCEPT !.isSaving = FALSE]
  /\ inFlight' = <<>>
  /\ UNCHANGED pc
  /\ UnchangedExcept("page")

NextPage ==
  \/ handleStructuredChange
  \/ handleTextChange
  \/ setViewMode
  \/ handleSaveLocal
  \/ handleSaveToS3
  \/ SaveSucceeds
  \/ SaveFails
SpecPage == InitPage /\ [][NextPage]_vars

\* C27: after any sequence of edits, view switches and saves, local or to
\* the cloud, hasUnsavedChanges is false only if the edited structured
\* resume and the edited text both equal their last saved versions.
C27_CleanMeansSaved ==
  ~page.hasUnsavedChanges
    => page.editedStructured = page.structured /\ page.editedText = page.text

\* C27, second half: a failed cloud save leaves hasUnsavedChanges as it was
C27_FailedSaveKeepsFlag ==
  [][SaveFails => page'.hasUnsavedChanges = page.hasUnsavedChanges]_vars

(***************************************************************************)
(* save-structured-resume/route.ts: POST.  A JSON value of the request is  *)
(* modelled by its type and by what the route reads of it: the length of a *)
(* string, the items of an array, the fields of an object.  Each await of  *)
(* s3.send is a step of its own, and the send either resolves or rejects.  *)
(***************************************************************************)
MAX_STRING_LENGTH == 10000
MAX_ARRAY_LENGTH == 100
MaxPersonalLength == 500
MaxContentLength == 5 * 1024 * 1024

JsUndefined == [type |-> "undefined"]
JsNull == [type |-> "null"]
JsString(n) == [type |-> "string", length |-> n]
JsArray(elements) == [type |-> "array", items |-> elements]
JsObject(fields) == [type |-> "object", fields |-> fields]

\* d[key] of an object: undefined for a key it does not have
Field(obj, key) ==
  IF key \in DOMAIN obj.fields THEN obj.fields[key] ELSE JsUndefined

Missing(val) == val.type = "undefined" \/ val.type = "null"
\* !val, for the values of this model
JsFalsy(val) == Missing(val) \/ (val.type = "string" /\ val.length = 0)

validateStringField(val, maxLen) ==
  Missing(val) \/ (val.type = "string" /\ val.length <= maxLen)

PersonalKeys ==
  <<"name", "email", "phone", "location", "linkedIn", "github", "portfolio">>
ArrayKeys == <<"experiences", "education", "skills", "projects">>

\* the first key of keys, from position i, whose value fails check: 0 if none
FirstBad(keys, i, Bad(_)) ==
  LET RECURSIVE Scan(_)
      Scan(k) == IF k > Len(keys) THEN 0
                 ELSE IF Bad(keys[k]) THEN k ELSE Scan(k + 1)
  IN Scan(i)

\* validateResumeData: the error message, or Null
validateResumeData(d) ==
  IF JsFalsy(d) \/ d.type # "object" THEN "Resume data must be an object"
  ELSE
    LET pi == Field(d, "personalInfo")
        BadPersonal(key) == ~validateStringField(Field(pi, key), MaxPersonalLength)
        NotArray(key) ==
          ~Missing(Field(d, key)) /\ Field(d, key).type # "array"
        BadArray(key) ==
          /\ ~Missing(Field(d, key))
          /\ \/ Field(d, key).type # "array"
             \/ Len(Field(d, key).items) > MAX_ARRAY_LENGTH
        Arrays(k) ==
          IF k = 0 THEN Null
          ELSE IF NotArray(ArrayKeys[k]) THEN ArrayKeys[k] \o " must be an array"
          ELSE ArrayKeys[k] \o " exceeds max length of 100"
        Rest ==
          IF ~validateStringField(Field(d, "summary"), MAX_STRING_LENGTH)
          THEN "summary is too long"
          ELSE Arrays(FirstBad(ArrayKeys, 1, BadArray))
    IN IF Missing(pi) THEN Rest
       ELSE IF pi.type # "object" THEN "personalInfo must be an object"
       ELSE IF FirstBad(PersonalKeys, 1, BadPersonal) # 0
       THEN "personalInfo." \o PersonalKeys[FirstBad(PersonalKeys, 1, BadPersonal)]
              \o " is invalid"
       ELSE Rest

\* generateMarkdown(updatedData) throws a TypeError when it reads a property
\* of an item that is null: exp.isCurrent, edu.startDate, s.category,
\* project.name (a.order when the array has two items or more)
MarkdownThrows(d) ==
  \E k \in 1..Len(ArrayKeys) :
    /\ ~Missing(Field(d, ArrayKeys[k]))
    /\ \E i \in 1..Len(Field(d, ArrayKeys[k]).items) :
         Missing(Field(d, ArrayKeys[k]).items[i])

\* uuidv4() and the two keys made from it
Uuid == "0b1f"
JsonKey == "resumes/structured/" \o Uuid \o ".json"
MdKey == "resumes/structured/" \o Uuid \o ".md"

SaveFailure(status, message) == [ok |-> FALSE, error |-> message, status |-> status]

Item == JsObject([order |-> 0])
Items(n, item) == [i \in 1..n |-> item]
ResumeValues ==
  { JsUndefined, JsString(0), JsString(12),
    JsObject(<<>>),
    JsObject([summary |-> JsString(40)]),
    JsObject([summary |-> JsString(MAX_STRING_LENGTH + 1)]),
    JsObject([personalInfo |-> JsString(4)]),
    JsObject([personalInfo |-> JsObject([name |-> JsString(10)])]),
    JsObject([personalInfo |-> JsObject([email |-> JsString(MaxPersonalLength + 1)])]),
    JsObject([experiences |-> JsString(3)]),
    JsObject([experiences |-> JsArray(Items(1, Item)), skills |-> JsNull]),
    JsObject([education |-> JsArray(Items(MAX_ARRAY_LENGTH, Item))]),
    JsObject([projects |-> JsArray(Items(MAX_ARRAY_LENGTH + 1, Item))]),
    JsObject([experiences |-> JsArray(Items(1, JsNull))]),
    JsObject([summary |-> JsString(40), skills |-> JsArray(<<Item, JsNull>>)]) }

\* the content-length header (absent: <<>>) and the data of the body
InitSave ==
  /\ pc = "start"
  /\ \E contentLength \in {<<>>, <<2048>>, <<MaxContentLength + 1>>},
        value \in ResumeValues :
       requestBody = [contentLength |-> contentLength, data |-> value]
  /\ stored = {}
  /\ saveResponse = <<>>
  /\ IdleExcept("save")

\* POST up to the first s3.send
ValidateRequest ==
  /\ pc = "start"
  /\ LET validationError == validateResumeData(requestBody.data)
         early ==
           IF requestBody.contentLength # <<>>
                /\ requestBody.contentLength[1] > MaxContentLength
           THEN <<SaveFailure(413, "Request body too large")>>
           ELSE IF JsFalsy(requestBody.data)
           THEN <<SaveFailure(400, "Resume data is required")>>
           ELSE IF validationError # Null
           THEN <<SaveFailure(400, validationError)>>
           ELSE <<>>
     IN IF early # <<>>
        THEN pc' = "done" /\ saveResponse' = early[1]
        ELSE pc' = "put json" /\ UNCHANGED saveResponse
  /\ UNCHANGED <<requestBody, stored>>
  /\ UnchangedExcept("save")

\* await s3.send(command) resolves
PutJsonResolves ==
  /\ pc = "put json"
  /\ stored' = stored \cup {JsonKey}
  /\ pc' = "put markdown"
  /\ UNCHANGED <<requestBody, saveResponse>>
  /\ UnchangedExcept("save")

\* await s3.send(command) rejects: the catch block answers 500
PutJsonRejects ==
  /\ pc = "put json"
  /\ pc' = "done"
  /\ saveResponse' = SaveFailure(500, "Failed to save resume")
  /\ UNCHANGED <<requestBody, stored>>
  /\ UnchangedExcept("save")

\* generateMarkdown(updatedData), then await s3.send(mdCommand) resolves
PutMarkdownResolves ==
  /\ pc = "put markdown"
  /\ pc' = "done"
  /\ IF MarkdownThrows(requestBody.data)
     THEN /\ saveResponse' = SaveFailure(500, TypeError)
          /\ UNCHANGED stored
     ELSE /\ saveResponse' = [ok |-> TRUE, s3Key |-> JsonKey, mdKey |-> MdKey]
          /\ stored' = stored \cup {MdKey}
  /\ UNCHANGED requestBody
  /\ UnchangedExcept("save")

\* generateMarkdown(updatedData), then await s3.send(mdCommand) rejects
PutMarkdownRejects ==
  /\ pc = "put markdown"
  /\ pc' = "done"
  /\ saveResponse' =
       SaveFailure(500, IF MarkdownThrows(requestBody.data) THEN TypeError
                        ELSE "Failed to save resume")
  /\ UNCHANGED <<requestBody, stored>>
  /\ UnchangedExcept("save")

NextSave ==
  \/ ValidateRequest
  \/ PutJsonResolves
  \/ PutJsonRejects
  \/ PutMarkdownResolves
  \/ PutMarkdownRejects
SpecSave == InitSave /\ [][NextSave]_vars

\* C28: a save-structured-resume request is all-or-nothing for the storage:
\* answered with ok = false, it has written neither object; answered with
\* ok = true, it has written the JSON and the markdown under the same uuid.
C28_AllOrNothing ==
  pc = "done"
    => /\ ~saveResponse.ok => stored = {}
       /\ saveResponse.ok => stored = {JsonKey, MdKey}

(***************************************************************************)
(* job-recommendations/route.ts: POST.  The loop over the top tracks       *)
(* awaits one fetchJSearchJobs call per track; what JSearch answers is     *)
(* chosen when the call is made and kept in fetchLog.  A job is modelled   *)
(* by its job_id and the day it was posted.  RAPIDAPI_KEY is configured.   *)
(***************************************************************************)
TopTracks == 2
MaxPerTrack == 10
RateLimitStatus == 429
MaxRecommended == 3

TrackNames ==
  {"Frontend", "Backend", "Full-Stack", "MLE", "Data Engineer", "DevOps",
   "Mobile", "Embedded", "Security", "Platform"}

\* TRACK_QUERY_MAP[trackName] is truthy: an entry of the map, or a name that
\* the object literal inherits from Object.prototype
HasQuery(trackName) ==
  trackName \in TrackNames \/ trackName \in ObjectPrototypeNames

\* careerAnalysis.recommendedTracks.slice(0, 2)
SliceTop(tracks) == SubSeq(tracks, 1, IF Len(tracks) < TopTracks THEN Len(tracks) ELSE TopTracks)

\* the day of job_posted_at_datetime_utc of the job with this id
PostedOn(jobId) == jobId % 3

\* convertJob(job, track), with the fields the route goes on to read
convertJob(jobId, trackName) ==
  [id |-> jobId, postedDate |-> PostedOn(jobId), track |-> trackName]

\* jobs.map(j => convertJob(j, trackName))
Converted(jobIds, trackName) ==
  [i \in 1..Len(jobIds) |-> convertJob(jobIds[i], trackName)]

DedupeById_KeepAll(jobList) == jobList

\* allJobs.filter(job => { if (seen.has(job.id)) return false; seen.add(job.id); return true })
DedupeById(jobList) ==
  KeepLines(jobList, {i \in 1..Len(jobList) :
                        \A j \in 1..(i - 1) : jobList[j].id # jobList[i].id})

\* dedupedJobs.sort((a, b) => date(b) - date(a)): Array.prototype.sort is stable
NewestFirst(jobList) ==
  LET RECURSIVE Sorted(_)
      Sorted(n) ==
        IF n = 0 THEN <<>>
        ELSE LET before == Sorted(n - 1)
                 at == Cardinality({i \in 1..Len(before) :
                                      before[i].postedDate >= jobList[n].postedDate})
             IN SubSeq(before, 1, at) \o <<jobList[n]>>
                  \o SubSeq(before, at + 1, Len(before))
  IN Sorted(Len(jobList))

\* trackCounts[job.track] = (trackCounts[job.track] || 0) + 1;
\* return trackCounts[job.track] <= 10.  Under an inherited name the count
\* starts from the inherited value, is a string and never compares <= 10.
CapPerTrack(jobList) ==
  KeepLines(jobList,
            {i \in 1..Len(jobList) :
               /\ jobList[i].track \notin ObjectPrototypeNames
               /\ Cardinality({j \in 1..i : jobList[j].track = jobList[i].track})
                    <= MaxPerTrack})

IsRateLimited_Never(status) == FALSE

\* res.status === 429: fetchJSearchJobs throws Error('RATE_LIMITED')
IsRateLimited(status) == status = RateLimitStatus

\* job ids 1..n
FirstIds(from, to) == [i \in 1..(to - from + 1) |-> from + i - 1]

\* what one call of fetchJSearchJobs can meet: the status of the response
\* (0: the fetch rejects or is aborted after 15 s) and the job ids of data.data
JSearchAnswers ==
  { [status |-> 200, ids |-> <<>>],
    [status |-> 200, ids |-> FirstIds(1, 3)],
    [status |-> 200, ids |-> FirstIds(1, 12)],
    [status |-> 200, ids |-> FirstIds(11, 22)],
    [status |-> 200, ids |-> <<5, 5, 6>>],
    [status |-> RateLimitStatus, ids |-> <<>>],
    [status |-> 500, ids |-> <<>>],
    [status |-> 0, ids |-> <<>>] }

TrackPool == {"Frontend", "Backend", "Quantum", "constructor"}

InitJobs ==
  /\ pc = "start"
  /\ \E n \in 0..MaxRecommended : recommendedTracks \in [1..n -> TrackPool]
  /\ trackIndex = 0
  /\ allJobs = <<>>
  /\ tracksQueried = <<>>
  /\ fetchLog = <<>>
  /\ jobsResponse = <<>>
  /\ IdleExcept("jobs")

\* if (!careerAnalysis?.recommendedTracks?.length) ... status 400
RejectRequest ==
  /\ pc = "start"
  /\ Len(recommendedTracks) = 0
  /\ pc' = "done"
  /\ jobsResponse' =
       [ok |-> FALSE, status |-> 400,
        error |-> "Career analysis with recommended tracks is required"]
  /\ UNCHANGED <<recommendedTracks, trackIndex, allJobs, tracksQueried, fetchLog>>
  /\ UnchangedExcept("jobs")

StartLoop ==
  /\ pc = "start"
  /\ Len(recommendedTracks) > 0
  /\ pc' = "loop"
  /\ trackIndex' = 1
  /\ UNCHANGED <<recommendedTracks, allJobs, tracksQueried, fetchLog, jobsResponse>>
  /\ UnchangedExcept("jobs")

\* if (!baseQuery) continue
SkipTrack ==
  /\ pc = "loop"
  /\ trackIndex <= Len(SliceTop(recommendedTracks))
  /\ ~HasQuery(recommendedTracks[trackIndex])
  /\ trackIndex' = trackIndex + 1
  /\ UNCHANGED <<pc, recommendedTracks, allJobs, tracksQueried, fetchLog, jobsResponse>>
  /\ UnchangedExcept("jobs")

\* one turn of the loop for a track that has a query: the awaited call ended
FetchTrack ==
  /\ pc = "loop"
  /\ trackIndex <= Len(SliceTop(recommendedTracks))
  /\ HasQuery(recommendedTracks[trackIndex])
  /\ \E answer \in JSearchAnswers :
       LET trackName == recommendedTracks[trackIndex]
       IN /\ tracksQueried' = Append(tracksQueried, trackName)
          /\ fetchLog' = Append(fetchLog, [track |-> trackName,
                                           status |-> answer.status,
                                           ids |-> answer.ids])
          /\ IF answer.status = 200
             THEN /\ allJobs' = allJobs \o Converted(answer.ids, trackName)
                  /\ trackIndex' = trackIndex + 1
                  /\ UNCHANGED <<pc, jobsResponse>>
             ELSE IF IsRateLimited(answer.status)
             THEN /\ pc' = "done"
                  /\ jobsResponse' =
                       [ok |-> FALSE, status |-> RateLimitStatus,
                        error |-> "JSearch API rate limit reached. Try again later."]
                  /\ UNCHANGED <<allJobs, trackIndex>>
             ELSE /\ trackIndex' = trackIndex + 1
                  /\ UNCHANGED <<pc, allJobs, jobsResponse>>
  /\ UNCHANGED recommendedTracks
  /\ UnchangedExcept("jobs")

\* after the loop: deduplicate, sort, cap, answer
Respond ==
  /\ pc = "loop"
  /\ trackIndex > Len(SliceTop(recommendedTracks))
  /\ pc' = "done"
  /\ jobsResponse' =
       [ok |-> TRUE, status |-> 200,
        jobs |-> CapPerTrack(NewestFirst(DedupeById(allJobs))),
        tracksQueried |-> tracksQueried]
  /\ UNCHANGED <<recommendedTracks, trackIndex, allJobs, tracksQueried, fetchLog>>
  /\ UnchangedExcept("jobs")

NextJobs == RejectRequest \/ StartLoop \/ SkipTrack \/ FetchTrack \/ Respond
SpecJobs == InitJobs /\ [][NextJobs]_vars

Succeeded == pc = "done" /\ jobsResponse.ok
JobsOf(trackName) ==
  {i \in 1..Len(jobsResponse.jobs) : jobsResponse.jobs[i].track = trackName}
\* the track of the first answer that held this job id
FirstTrackWith(jobId) ==
  LET holds == {k \in 1..Len(fetchLog) :
                  \E i \in 1..Len(fetchLog[k].ids) : fetchLog[k].ids[i] = jobId}
  IN fetchLog[CHOOSE k \in holds : \A other \in holds : k <= other].track

\* C29: in a success response at most the first two tracks were queried,
\* the job ids are pairwise distinct, a job that two tracks returned is kept
\* under the higher-ranked one, and no track has more than 10 jobs.
C29_TopTwoDistinctCapped ==
  Succeeded =>
    /\ Len(jobsResponse.tracksQueried) <= 2
    /\ \A k \in 1..Len(jobsResponse.tracksQueried) :
         \E r \in 1..2 :
           r <= Len(recommendedTracks)
             /\ recommendedTracks[r] = jobsResponse.tracksQueried[k]
    /\ \A i, j \in 1..Len(jobsResponse.jobs) :
         i # j => jobsResponse.jobs[i].id # jobsResponse.jobs[j].id
    /\ \A i \in 1..Len(jobsResponse.jobs) :
         /\ jobsResponse.jobs[i].track = FirstTrackWith(jobsResponse.jobs[i].id)
         /\ Cardinality(JobsOf(jobsResponse.jobs[i].track)) <= 10

\* C29 witness: two different tracks answered, both held job 11, the first
\* held more than 10 jobs, and the response keeps 10 of them
C29_Witness_SharedAndCapped ==
  /\ Succeeded
  /\ Len(fetchLog) = 2
  /\ fetchLog[1].track # fetchLog[2].track
  /\ fetchLog[1].ids = FirstIds(1, 12)
  /\ fetchLog[2].ids = FirstIds(11, 22)
  /\ Cardinality(JobsOf(fetchLog[1].track)) = 10
  /\ Cardinality(JobsOf(fetchLog[2].track)) = 10

LoggedStatuses == {fetchLog[k].status : k \in 1..Len(fetchLog)}
ResponseIds == {jobsResponse.jobs[i].id : i \in 1..Len(jobsResponse.jobs)}

\* C30: the tracks are fetched one after the other; an answer 429 for any
\* track makes the whole request answer 429 with no jobs, even when an
\* earlier track succeeded; any other failure of a track is skipped, and the
\* response is still a success with the jobs of the tracks that answered
\* (all of them, up to the 10 a track may have).
C30_RateLimitEndsOthersSkipped ==
  /\ \A k \in 1..Len(fetchLog) :
       /\ fetchLog[k].track = tracksQueried[k]
       /\ k < Len(fetchLog) => fetchLog[k].status # 429
  /\ (pc = "done" /\ Len(recommendedTracks) > 0) =>
       IF 429 \in LoggedStatuses
       THEN /\ ~jobsResponse.ok
            /\ jobsResponse.status = 429
            /\ "jobs" \notin DOMAIN jobsResponse
       ELSE /\ jobsResponse.ok
            /\ \A i \in 1..Len(jobsResponse.jobs) :
                 \E k \in 1..Len(fetchLog) :
                   /\ fetchLog[k].status = 200
                   /\ fetchLog[k].track = jobsResponse.jobs[i].track
                   /\ \E n \in 1..Len(fetchLog[k].ids) :
                        fetchLog[k].ids[n] = jobsResponse.jobs[i].id
            /\ \A k \in 1..Len(fetchLog) :
                 \A n \in 1..Len(fetchLog[k].ids) :
                   FirstTrackWith(fetchLog[k].ids[n]) \in TrackNames
                     => \/ fetchLog[k].ids[n] \in ResponseIds
                        \/ Cardinality(JobsOf(FirstTrackWith(fetchLog[k].ids[n]))) = 10

\* C30 witness: the first track answered with jobs, the second with 429
C30_Witness_LateRateLimit ==
  /\ pc = "done"
  /\ Len(fetchLog) = 2
  /\ fetchLog[1].status = 200 /\ Len(fetchLog[1].ids) > 0
  /\ fetchLog[2].status = 429
  /\ jobsResponse.status = 429

\* C30, the other case: the first track failed with status 500, the second
\* answered, and the response is a success with its jobs
C30_Reached_FailureSkipped ==
  /\ Succeeded
  /\ Len(fetchLog) = 2
  /\ fetchLog[1].status = 500
  /\ fetchLog[2].ids = FirstIds(1, 3)
  /\ Len(jobsResponse.jobs) = 3

=============================================================================
